---- MODULE Spec2Model ----
(***************************************************************************)
(* A model of the httpbin-style diagnostic HTTP service                     *)
(* (chyrag/tyk-devops-assignment).  One request is served at a time: an     *)
(* action per handler takes the request from small input sets, runs the    *)
(* handler's code on it and leaves the response in w.                      *)
(*                                                                         *)
(* Strings of the program that the code inspects (paths, header values)    *)
(* are sequences of one-character strings, so that the code's splitting,   *)
(* trimming, parsing and decoding are computed character by character.     *)
(* Fixed messages that the code only copies are plain TLA+ strings.        *)
(***************************************************************************)
EXTENDS Integers, Sequences, FiniteSets, TLC

VARIABLES
    pc,          \* "idle" | "sleeping" | "done": position of the serving goroutine
    handler,     \* name of the handler serving the current request
    r,           \* the request (*http.Request)
    w,           \* the response as sent through http.ResponseWriter
    statusWeights, \* StatusHandler's local weights: what parseStatusCodes returned
    statusCode,  \* StatusHandler's local statusCode: <<>> until selected, then <<code>>
    draw,        \* the value rand.Float64 returned, as <<k>> meaning k/DrawRes; <<>> if not called
    rnd,         \* the byte blocks crypto/rand.Read produced for this response, in call order
    seconds,     \* DelayHandler's local seconds after the clamp: <<>> or <<n>>
    slept,       \* total seconds this request has spent in time.Sleep
    bodyReads,   \* number of io.ReadAll(r.Body) calls made for this request
    bodyClosed,  \* whether the handler's code has called r.Body.Close()
    wrapped,     \* the middleware's responseWriter: its statusCode and written fields
    under,       \* the http.ResponseWriter the responseWriter embeds
    direct,      \* the writer of the same handler served without the middleware
    calls,       \* the calls the handler has made on its writer, in order
    logged,      \* the lines the middleware has logged for this request
    mainPc,      \* position of the main goroutine in main
    servePc,     \* position of the goroutine that runs srv.Start
    inShutdown,  \* whether srv.Shutdown has been called (the listener is closed)
    inflight,    \* number of requests being served
    quit,        \* number of signals in the channel quit (capacity 1)
    exited,      \* "running", or how the process ended
    procLog,     \* what main and its goroutine have logged
    elapsed,     \* seconds passed of the bound of the shutdown context
    conns,       \* the goroutines serving connections: pc, request, response, locals
    rngState,    \* state of the generator of math/rand, shared by the process
    suspended    \* the goroutines suspended in time.Sleep

\* the locals of the handlers
handlerVars == <<statusWeights, statusCode, draw, rnd, seconds, slept, bodyReads, bodyClosed>>

\* the state of the logging middleware
logVars == <<wrapped, under, direct, calls, logged>>

\* the state of the process
procVars == <<mainPc, servePc, inShutdown, inflight, quit, exited, procLog, elapsed>>

\* the connections served concurrently
connVars == <<conns, rngState, suspended>>

vars == <<pc, handler, r, w, handlerVars, logVars, procVars, connVars>>

\* what the steps of the process, and of the connections, leave alone
notProc == <<pc, handler, r, w, handlerVars, logVars, connVars>>
notConns == <<pc, handler, r, w, handlerVars, logVars, procVars>>

(***************************************************************************)
(* Bounds of the model.                                                    *)
(***************************************************************************)
\* Entries of a weighted status spec.
MaxEntries == 3
\* rand.Float64() is modelled as k/DrawRes for k in 0..DrawRes-1 (so 0 is a
\* possible draw and 1 is not, as in [0.0, 1.0)).
DrawRes == 4
\* Weights are fixed-point numbers with FracDigits decimal digits.
FracDigits == 1
\* Unweighted status codes are enumerated from MinStatus-Margin to MaxStatus+Margin.
Margin == 5
\* Delays are enumerated from 0 to MaxDelay+DelayMargin.
DelayMargin == 2
\* Calls a handler makes on its writer under the logging middleware.
MaxCalls == 3
\* Requests in flight at a time.
MaxInflight == 2
\* Connections served concurrently.
NConns == 2

(***************************************************************************)
(* Program constants.                                                      *)
(***************************************************************************)
MinStatus == 100
MaxStatus == 599
MaxDelay == 10
StatusOK == 200
StatusBadRequest == 400
StatusUnauthorized == 401
StatusInternalServerError == 500

(***************************************************************************)
(* The Go string functions the handlers call, on sequences of characters.  *)
(***************************************************************************)
Min(S) == CHOOSE x \in S : \A y \in S : x <= y
Max(S) == CHOOSE x \in S : \A y \in S : x >= y

Digits == <<"0","1","2","3","4","5","6","7","8","9">>
IsDigit(c) == \E d \in 1..10 : Digits[d] = c
DigitVal(c) == (CHOOSE d \in 1..10 : Digits[d] = c) - 1

\* strings.HasPrefix
HasPrefix(s, p) == Len(s) >= Len(p) /\ SubSeq(s, 1, Len(p)) = p

\* strings.TrimPrefix
TrimPrefix(s, p) == IF HasPrefix(s, p) THEN SubSeq(s, Len(p) + 1, Len(s)) ELSE s

\* strings.Index for a one-character separator, 1-based; 0 when absent
Index(s, c) ==
    LET at == {i \in 1..Len(s) : s[i] = c}
    IN IF at = {} THEN 0 ELSE Min(at)

\* strings.LastIndex for a one-character separator, 1-based; 0 when absent
LastIndex(s, c) ==
    LET at == {i \in 1..Len(s) : s[i] = c}
    IN IF at = {} THEN 0 ELSE Max(at)

\* strings.Contains for a one-character substring
Contains(s, c) == Index(s, c) # 0

\* strings.Contains for any substring
ContainsString(s, sub) ==
    \E i \in 1..(Len(s) - Len(sub) + 1) : SubSeq(s, i, i + Len(sub) - 1) = sub

\* strings.Split for a one-character separator: always at least one part
RECURSIVE Split(_, _)
Split(s, sep) ==
    LET i == Index(s, sep)
    IN IF i = 0 THEN <<s>>
       ELSE <<SubSeq(s, 1, i - 1)>> \o Split(SubSeq(s, i + 1, Len(s)), sep)

\* strings.SplitN(s, sep, 2): split at the first separator only
SplitN2(s, sep) ==
    LET i == Index(s, sep)
    IN IF i = 0 THEN <<s>>
       ELSE <<SubSeq(s, 1, i - 1), SubSeq(s, i + 1, Len(s))>>

\* strings.Trim(s, cutset): drop every leading and trailing character of cutset
Trim(s, cutset) ==
    LET keep == {i \in 1..Len(s) : s[i] \notin cutset}
    IN IF keep = {} THEN <<>> ELSE SubSeq(s, Min(keep), Max(keep))

\* strings.TrimSpace (the ASCII white space of unicode.IsSpace)
SpaceChars == {" ", "\t", "\n", "\r"}
TrimSpace(s) == Trim(s, SpaceChars)

OnlyDigits(s) == \A i \in 1..Len(s) : IsDigit(s[i])

\* value of a digit string; the empty string counts 0
RECURSIVE DigitsValue(_)
DigitsValue(s) ==
    IF s = <<>> THEN 0
    ELSE 10 * DigitsValue(SubSeq(s, 1, Len(s) - 1)) + DigitVal(s[Len(s)])

RECURSIVE StripZeros(_)
StripZeros(s) == IF s # <<>> /\ Head(s) = "0" THEN StripZeros(Tail(s)) ELSE s

\* a > b for digit strings of the same length
RECURSIVE DigitsGreater(_, _)
DigitsGreater(a, b) ==
    IF a = <<>> THEN FALSE
    ELSE IF Head(a) # Head(b) THEN DigitVal(Head(a)) > DigitVal(Head(b))
    ELSE DigitsGreater(Tail(a), Tail(b))

\* 2^63 - 1 and 2^63: the int of the linux/amd64 build is 64 bits wide
MaxInt64Digits == <<"9","2","2","3","3","7","2","0","3","6","8","5","4","7","7","5","8","0","7">>
MinInt64Digits == <<"9","2","2","3","3","7","2","0","3","6","8","5","4","7","7","5","8","0","8">>

\* whether the magnitude ds (digits) with the given sign is outside int64
OutOfInt64(ds, neg) ==
    LET m == StripZeros(ds)
        lim == IF neg THEN MinInt64Digits ELSE MaxInt64Digits
    IN Len(m) > Len(lim) \/ (Len(m) = Len(lim) /\ DigitsGreater(m, lim))

\* strconv.Atoi: an optional sign and one or more decimal digits, within int.
\* Numerals of the model have at most 9 digits or lie outside int64, so that
\* every value computed fits TLC's integers.
Atoi(s) ==
    LET signed == s # <<>> /\ Head(s) \in {"+", "-"}
        neg == s # <<>> /\ Head(s) = "-"
        ds == IF signed THEN Tail(s) ELSE s
    IN IF ds = <<>> \/ ~OnlyDigits(ds) \/ OutOfInt64(ds, neg)
       THEN [ok |-> FALSE, val |-> 0]
       ELSE [ok |-> TRUE, val |-> IF neg THEN 0 - DigitsValue(ds) ELSE DigitsValue(ds)]

RECURSIVE Pow10(_)
Pow10(n) == IF n = 0 THEN 1 ELSE 10 * Pow10(n - 1)

\* the float64 1.0 in fixed-point units
UnitWeight == Pow10(FracDigits)

\* the first FracDigits digits of a fraction, as fixed-point units
RECURSIVE FracValue(_, _)
FracValue(fp, n) ==
    IF n = 0 THEN 0
    ELSE (IF fp = <<>> THEN 0 ELSE DigitVal(Head(fp)) * Pow10(n - 1))
         + FracValue(IF fp = <<>> THEN <<>> ELSE Tail(fp), n - 1)

\* strconv.ParseFloat(s, 64) on plain decimals: an optional sign, digits with
\* an optional point, at least one digit.  The value is exact in fixed-point
\* units for fractions of at most FracDigits digits; exponents, hexadecimal
\* floats, "inf" and "nan" are not among the model's inputs.
ParseFloat(s) ==
    LET signed == s # <<>> /\ Head(s) \in {"+", "-"}
        neg == s # <<>> /\ Head(s) = "-"
        m == IF signed THEN Tail(s) ELSE s
        dot == Index(m, ".")
        ip == IF dot = 0 THEN m ELSE SubSeq(m, 1, dot - 1)
        fp == IF dot = 0 THEN <<>> ELSE SubSeq(m, dot + 1, Len(m))
        mag == DigitsValue(ip) * UnitWeight + FracValue(fp, FracDigits)
    IN IF OnlyDigits(ip) /\ OnlyDigits(fp) /\ Len(ip) + Len(fp) > 0
       THEN [ok |-> TRUE, val |-> IF neg THEN 0 - mag ELSE mag]
       ELSE [ok |-> FALSE, val |-> 0]

\* strconv.Itoa, used to write the numerals of the requests
RECURSIVE Itoa(_)
Itoa(n) ==
    IF n < 0 THEN <<"-">> \o Itoa(0 - n)
    ELSE IF n < 10 THEN <<Digits[n + 1]>>
    ELSE Itoa(n \div 10) \o <<Digits[(n % 10) + 1]>>

\* strings.Join with a one-character separator, used to write the requests
RECURSIVE Join(_, _)
Join(parts, sep) ==
    IF parts = <<>> THEN <<>>
    ELSE IF Len(parts) = 1 THEN parts[1]
    ELSE parts[1] \o <<sep>> \o Join(Tail(parts), sep)

(***************************************************************************)
(* http.ResponseWriter as the client sees it: the first WriteHeader fixes  *)
(* the status and the headers set until then; a Write before any           *)
(* WriteHeader sends 200.                                                  *)
(***************************************************************************)
NoHeaders == [n \in {} |-> <<>>]

NewResponse ==
    [status |-> 0, header |-> NoHeaders, body |-> <<>>, writeHeaderCalls |-> 0]

\* w.Header().Set(name, value)
SetHeader(rw, name, value) ==
    IF rw.status # 0 THEN rw
    ELSE [rw EXCEPT !.header =
            [n \in (DOMAIN rw.header) \cup {name} |->
                IF n = name THEN value ELSE rw.header[n]]]

\* w.WriteHeader(code)
WriteHeader(rw, code) ==
    [rw EXCEPT !.status = IF rw.status = 0 THEN code ELSE rw.status,
               !.writeHeaderCalls = rw.writeHeaderCalls + 1]

\* w.Write(chunk)
Write(rw, chunk) ==
    [rw EXCEPT !.status = IF rw.status = 0 THEN StatusOK ELSE rw.status,
               !.body = Append(rw.body, chunk)]

\* json.NewEncoder(w).Encode(data): one JSON document per call
JSONEncode(data) == [json |-> data]

ContentTypeJSON == "application/json"

\* writeJSONResponse
writeJSONResponse(rw, status, data) ==
    Write(WriteHeader(SetHeader(rw, "Content-Type", ContentTypeJSON), status),
          JSONEncode(data))

\* mutant: the error is written twice
writeJSONErrorBug(rw, status, message) ==
    writeJSONResponse(writeJSONResponse(rw, status, [error |-> message]),
                      status, [error |-> message])

\* writeJSONError
writeJSONError(rw, status, message) ==
    writeJSONResponse(rw, status, [error |-> message])

(***************************************************************************)
(* Requests.                                                               *)
(***************************************************************************)
Methods == {"GET", "POST"}

NoRequest ==
    [method |-> "", path |-> <<>>, auth |-> <<>>, xff |-> <<>>, xri |-> <<>>,
     remoteAddr |-> <<>>, body |-> <<>>, bodyErr |-> FALSE,
     contentType |-> <<>>, userAgent |-> <<>>]

Request(method, path) == [NoRequest EXCEPT !.method = method, !.path = path]

(***************************************************************************)
(* /status/{spec}: internal/handlers/status.go                             *)
(***************************************************************************)
StatusPrefix == <<"/","s","t","a","t","u","s","/">>

\* mutant of the token count: a part of more than two tokens is kept
ParsePartBug(part) ==
    LET codeWeight == Split(TrimSpace(part), ":")
    IN IF Len(codeWeight) < 2 THEN <<>>
       ELSE LET code == Atoi(TrimSpace(codeWeight[1]))
                weight == ParseFloat(TrimSpace(codeWeight[2]))
            IN IF ~code.ok \/ ~weight.ok THEN <<>>
               ELSE <<[code |-> code.val, weight |-> weight.val]>>

\* one comma-separated part of a weighted spec: <<entry>> or <<>> when skipped
ParsePart(part) ==
    LET codeWeight == Split(TrimSpace(part), ":")
    IN IF Len(codeWeight) # 2 THEN <<>>
       ELSE LET code == Atoi(TrimSpace(codeWeight[1]))
                weight == ParseFloat(TrimSpace(codeWeight[2]))
            IN IF ~code.ok \/ ~weight.ok THEN <<>>
               ELSE <<[code |-> code.val, weight |-> weight.val]>>

RECURSIVE ParseParts(_)
ParseParts(parts) ==
    IF parts = <<>> THEN <<>>
    ELSE ParsePart(Head(parts)) \o ParseParts(Tail(parts))

\* parseStatusCodes: (weights, err)
parseStatusCodes(path) ==
    LET p == TrimPrefix(path, StatusPrefix)
    IN IF p = <<>> THEN [err |-> FALSE, weights |-> <<>>]
       ELSE IF ~Contains(p, ":")
       THEN LET code == Atoi(p)
            IN IF ~code.ok THEN [err |-> TRUE, weights |-> <<>>]
               ELSE [err |-> FALSE,
                     weights |-> <<[code |-> code.val, weight |-> UnitWeight]>>]
       ELSE [err |-> FALSE, weights |-> ParseParts(Split(p, ","))]

RECURSIVE SumWeights(_, _)
SumWeights(weights, n) ==
    IF n = 0 THEN 0 ELSE SumWeights(weights, n - 1) + weights[n].weight

\* mutant of the comparison: r < cumulative
DrawReachesStrictBug(k, totalWeight, cumulative) == k * totalWeight < cumulative * DrawRes

\* the comparison of the selection loop: r <= cumulative, where
\* r = rand.Float64() * totalWeight and rand.Float64() = k/DrawRes
DrawReaches(k, totalWeight, cumulative) == k * totalWeight <= cumulative * DrawRes

\* mutant of the fallback: 200 when the loop selects nothing
selectStatusCodeBug(weights, k) ==
    IF Len(weights) = 0 THEN StatusOK
    ELSE IF Len(weights) = 1 THEN weights[1].code
    ELSE LET totalWeight == SumWeights(weights, Len(weights))
             hit == {i \in 1..Len(weights) :
                        DrawReaches(k, totalWeight, SumWeights(weights, i))}
         IN IF hit # {} THEN weights[Min(hit)].code
            ELSE StatusOK

\* selectStatusCode, given the draw k (unused unless there are two or more entries)
selectStatusCode(weights, k) ==
    IF Len(weights) = 0 THEN StatusOK
    ELSE IF Len(weights) = 1 THEN weights[1].code
    ELSE LET totalWeight == SumWeights(weights, Len(weights))
             hit == {i \in 1..Len(weights) :
                        DrawReaches(k, totalWeight, SumWeights(weights, i))}
         IN IF hit # {} THEN weights[Min(hit)].code
            ELSE weights[Len(weights)].code

\* mutants of the range check: 599 rejected; no upper limit
ValidStatusCodeBug(code) == ~(code < MinStatus \/ code >= MaxStatus)
ValidStatusCodeNoUpperBug(code) == ~(code < MinStatus)

\* the range check of StatusHandler
ValidStatusCode(code) == ~(code < MinStatus \/ code > MaxStatus)

\* the response of StatusHandler, given what parseStatusCodes returned
StatusResponse(parsed, k) ==
    IF parsed.err \/ Len(parsed.weights) = 0
    THEN writeJSONError(NewResponse, StatusBadRequest, "Invalid status code specification")
    ELSE LET code == selectStatusCode(parsed.weights, k)
         IN IF ~ValidStatusCode(code)
            THEN writeJSONError(NewResponse, StatusBadRequest,
                                "Status code must be between 100 and 599")
            ELSE WriteHeader(NewResponse, code)

\* the specs of the requests: numerals around the valid range, some other
\* unweighted specs, and every list of up to MaxEntries parts
UnweightedSpecs ==
    {Itoa(c) : c \in (MinStatus - Margin)..(MaxStatus + Margin)}
    \cup {<<>>, <<"a","b","c">>, <<"+","2","0","0">>, <<"-","2","0","0">>, <<" ","2","0","0">>, <<"0","2","0","0">>, <<"2","e","2">>,
          <<"0">>, <<"9","9","9">>, <<"9","9","9","9","9","9","9","9","9","9","9","9","9","9","9","9","9","9","9","9">>}

SpecParts ==
    {<<"2","0","0",":","1">>, <<"5","0","0",":","0">>, <<"4","0","4",":","0",".","5">>, <<"9","9",":","1">>, <<"a","b","c",":","1">>, <<"2","0","0",":","x">>,
     <<"2","0","0",":","1",":","1">>, <<" ","6","0","0"," ",":"," ","2"," ">>, <<"3","0","0">>, <<"5","0","3",":","-","1">>}

WeightedSpecs ==
    {Join(parts, ",") : parts \in UNION {[1..n -> SpecParts] : n \in 1..MaxEntries}}

\* lists of zero weights with different codes, and a code beyond the int
ZeroWeightSpecs ==
    {<<"5","0","0",":","0",",","2","0","1",":","0">>, <<"2","0","1",":","0",",","5","0","0",":","0">>, <<"2","0","1",":","0",",","5","0","0",":","0",",","2","0","1",":","0">>, <<"a","b","c",":","1",",","2","0","1",":","0",","," ","5","0","0",":","0">>,
     <<"2","0","1",":","0">>, <<"9","9","9","9","9","9","9","9","9","9","9","9","9","9","9","9","9","9","9","9",":","1">>, <<"2","0","0",":","1",",","9","9","9","9","9","9","9","9","9","9","9","9","9","9","9","9","9","9","9","9",":","1",",","4","0","4",":","0",".","5">>}

StatusSpecs == UnweightedSpecs \cup WeightedSpecs \cup ZeroWeightSpecs

\* whether StatusHandler, with this parse result, reaches rand.Float64
StatusDraws(parsed) == ~parsed.err /\ Len(parsed.weights) >= 2

StatusHandler ==
    /\ pc = "idle"
    /\ \E spec \in StatusSpecs :
         \E parsed \in {parseStatusCodes(StatusPrefix \o spec)} :
           \E method \in Methods,
              k \in (IF StatusDraws(parsed) THEN 0..(DrawRes - 1) ELSE {0}) :
              /\ r' = Request(method, StatusPrefix \o spec)
              /\ draw' = IF StatusDraws(parsed) THEN <<k>> ELSE <<>>
              /\ statusWeights' = parsed.weights
              /\ statusCode' = IF parsed.err \/ Len(parsed.weights) = 0 THEN <<>>
                                 ELSE <<selectStatusCode(parsed.weights, k)>>
              /\ w' = StatusResponse(parsed, k)
    /\ handler' = "StatusHandler"
    /\ pc' = "done"
    /\ UNCHANGED <<rnd, seconds, slept, bodyReads, bodyClosed, logVars, procVars, connVars>>

(***************************************************************************)
(* encoding/base64 (StdEncoding) and encoding/hex, on bytes 0..255.        *)
(***************************************************************************)
\* the character of each byte: printable ASCII as itself, the other bytes by
\* a name ("x00".."xFF") that stands for the one byte
ByteChars ==
    <<
      "x00", "x01", "x02", "x03", "x04", "x05", "x06", "x07",
      "x08", "\t", "\n", "x0B", "x0C", "\r", "x0E", "x0F",
      "x10", "x11", "x12", "x13", "x14", "x15", "x16", "x17",
      "x18", "x19", "x1A", "x1B", "x1C", "x1D", "x1E", "x1F",
      " ", "!", "\"", "#", "$", "%", "&", "'",
      "(", ")", "*", "+", ",", "-", ".", "/",
      "0", "1", "2", "3", "4", "5", "6", "7",
      "8", "9", ":", ";", "<", "=", ">", "?",
      "@", "A", "B", "C", "D", "E", "F", "G",
      "H", "I", "J", "K", "L", "M", "N", "O",
      "P", "Q", "R", "S", "T", "U", "V", "W",
      "X", "Y", "Z", "[", "\\", "]", "^", "_",
      "x60", "a", "b", "c", "d", "e", "f", "g",
      "h", "i", "j", "k", "l", "m", "n", "o",
      "p", "q", "r", "s", "t", "u", "v", "w",
      "x", "y", "z", "{", "|", "}", "~", "x7F",
      "x80", "x81", "x82", "x83", "x84", "x85", "x86", "x87",
      "x88", "x89", "x8A", "x8B", "x8C", "x8D", "x8E", "x8F",
      "x90", "x91", "x92", "x93", "x94", "x95", "x96", "x97",
      "x98", "x99", "x9A", "x9B", "x9C", "x9D", "x9E", "x9F",
      "xA0", "xA1", "xA2", "xA3", "xA4", "xA5", "xA6", "xA7",
      "xA8", "xA9", "xAA", "xAB", "xAC", "xAD", "xAE", "xAF",
      "xB0", "xB1", "xB2", "xB3", "xB4", "xB5", "xB6", "xB7",
      "xB8", "xB9", "xBA", "xBB", "xBC", "xBD", "xBE", "xBF",
      "xC0", "xC1", "xC2", "xC3", "xC4", "xC5", "xC6", "xC7",
      "xC8", "xC9", "xCA", "xCB", "xCC", "xCD", "xCE", "xCF",
      "xD0", "xD1", "xD2", "xD3", "xD4", "xD5", "xD6", "xD7",
      "xD8", "xD9", "xDA", "xDB", "xDC", "xDD", "xDE", "xDF",
      "xE0", "xE1", "xE2", "xE3", "xE4", "xE5", "xE6", "xE7",
      "xE8", "xE9", "xEA", "xEB", "xEC", "xED", "xEE", "xEF",
      "xF0", "xF1", "xF2", "xF3", "xF4", "xF5", "xF6", "xF7",
      "xF8", "xF9", "xFA", "xFB", "xFC", "xFD", "xFE", "xFF" >>

Chr(b) == ByteChars[b + 1]
Ord(c) == (CHOOSE i \in 1..Len(ByteChars) : ByteChars[i] = c) - 1

B64Alphabet == <<"A","B","C","D","E","F","G","H","I","J","K","L","M","N","O","P","Q","R","S","T","U","V","W","X","Y","Z","a","b","c","d","e","f","g","h","i","j","k","l","m","n","o","p","q","r","s","t","u","v","w","x","y","z","0","1","2","3","4","5","6","7","8","9","+","/">>
IsB64(c) == \E i \in 1..Len(B64Alphabet) : B64Alphabet[i] = c
B64Val(c) == (CHOOSE i \in 1..Len(B64Alphabet) : B64Alphabet[i] = c) - 1

\* the bytes of one quantum of four input characters, or "bad"
B64Quantum(q, last) ==
    IF IsB64(q[1]) /\ IsB64(q[2]) /\ IsB64(q[3]) /\ IsB64(q[4])
    THEN LET v == B64Val(q[1]) * 262144 + B64Val(q[2]) * 4096
                  + B64Val(q[3]) * 64 + B64Val(q[4])
         IN [ok |-> TRUE,
             data |-> <<Chr(v \div 65536), Chr((v \div 256) % 256), Chr(v % 256)>>]
    ELSE IF last /\ IsB64(q[1]) /\ IsB64(q[2]) /\ IsB64(q[3]) /\ q[4] = "="
    THEN LET v == B64Val(q[1]) * 262144 + B64Val(q[2]) * 4096 + B64Val(q[3]) * 64
         IN [ok |-> TRUE, data |-> <<Chr(v \div 65536), Chr((v \div 256) % 256)>>]
    ELSE IF last /\ IsB64(q[1]) /\ IsB64(q[2]) /\ q[3] = "=" /\ q[4] = "="
    THEN LET v == B64Val(q[1]) * 262144 + B64Val(q[2]) * 4096
         IN [ok |-> TRUE, data |-> <<Chr(v \div 65536)>>]
    ELSE [ok |-> FALSE, data |-> <<>>]

RECURSIVE B64Quanta(_)
B64Quanta(s) ==
    IF s = <<>> THEN [ok |-> TRUE, data |-> <<>>]
    ELSE LET head == B64Quantum(SubSeq(s, 1, 4), Len(s) = 4)
             rest == B64Quanta(SubSeq(s, 5, Len(s)))
         IN IF head.ok /\ rest.ok THEN [ok |-> TRUE, data |-> head.data \o rest.data]
            ELSE [ok |-> FALSE, data |-> <<>>]

NotNewline(c) == c \notin {"\n", "\r"}

\* base64.StdEncoding.DecodeString: line breaks are skipped, padding is
\* required, and only the last quantum may be padded
B64Decode(s) ==
    LET t == SelectSeq(s, NotNewline)
    IN IF Len(t) % 4 # 0 THEN [ok |-> FALSE, data |-> <<>>] ELSE B64Quanta(t)

\* base64.StdEncoding.EncodeToString, used to write the requests
RECURSIVE B64Encode(_)
B64Encode(s) ==
    IF s = <<>> THEN <<>>
    ELSE LET n == IF Len(s) >= 3 THEN 3 ELSE Len(s)
             b1 == Ord(s[1])
             b2 == IF n >= 2 THEN Ord(s[2]) ELSE 0
             b3 == IF n >= 3 THEN Ord(s[3]) ELSE 0
             v == b1 * 65536 + b2 * 256 + b3
         IN << B64Alphabet[(v \div 262144) + 1],
               B64Alphabet[((v \div 4096) % 64) + 1],
               IF n >= 2 THEN B64Alphabet[((v \div 64) % 64) + 1] ELSE "=",
               IF n >= 3 THEN B64Alphabet[(v % 64) + 1] ELSE "=" >>
            \o B64Encode(SubSeq(s, n + 1, Len(s)))

HexDigits == <<"0","1","2","3","4","5","6","7","8","9","a","b","c","d","e","f">>

\* hex.EncodeToString
RECURSIVE HexEncode(_)
HexEncode(bytes) ==
    IF bytes = <<>> THEN <<>>
    ELSE <<HexDigits[(Head(bytes) \div 16) + 1], HexDigits[(Head(bytes) % 16) + 1]>>
         \o HexEncode(Tail(bytes))

(***************************************************************************)
(* /basic-auth/, /bearer, /digest-auth/: the authentication handlers       *)
(***************************************************************************)
BasicPrefix == <<"/","b","a","s","i","c","-","a","u","t","h","/">>
BasicScheme == <<"B","a","s","i","c"," ">>
BasicChallenge == <<"B","a","s","i","c"," ","r","e","a","l","m","=","\"","R","e","s","t","r","i","c","t","e","d","\"">>
BearerPath == <<"/","b","e","a","r","e","r">>
BearerScheme == <<"B","e","a","r","e","r"," ">>
BearerChallenge == <<"B","e","a","r","e","r"," ","r","e","a","l","m","=","\"","R","e","s","t","r","i","c","t","e","d","\"">>
DigestPrefix == <<"/","d","i","g","e","s","t","-","a","u","t","h","/">>
DigestScheme == <<"D","i","g","e","s","t"," ">>

\* mutant: the 401 without its challenge header
ChallengeBug(challenge, message) ==
    writeJSONError(NewResponse, StatusUnauthorized, message)

\* w.Header().Set("WWW-Authenticate", challenge); writeJSONError(w, 401, message)
Challenge(challenge, message) ==
    writeJSONError(SetHeader(NewResponse, "WWW-Authenticate", challenge),
                   StatusUnauthorized, message)

\* the path check of BasicAuthHandler
BasicPathOK(pathParts) == ~(Len(pathParts) < 2)

\* mutant: the password is not compared
BasicCredentialsBug(user, passwd, expectedUser, expectedPasswd) ==
    ~(user # expectedUser)

\* the comparison of the credentials in BasicAuthHandler
BasicCredentialsOK(user, passwd, expectedUser, expectedPasswd) ==
    ~(user # expectedUser \/ passwd # expectedPasswd)

\* BasicAuthHandler, given r.URL.Path and r.Header.Get("Authorization")
BasicAuthResponse(path, auth) ==
    LET pathParts == Split(TrimPrefix(path, BasicPrefix), "/")
    IN IF ~BasicPathOK(pathParts)
       THEN writeJSONError(NewResponse, StatusBadRequest,
                           "Invalid path format. Use /basic-auth/{user}/{passwd}")
       ELSE IF auth = <<>> THEN Challenge(BasicChallenge, "Authorization required")
       ELSE IF ~HasPrefix(auth, BasicScheme)
       THEN Challenge(BasicChallenge, "Basic authentication required")
       ELSE LET payload == B64Decode(SubSeq(auth, 7, Len(auth)))
                credentials == SplitN2(payload.data, ":")
            IN IF ~payload.ok
               THEN Challenge(BasicChallenge, "Invalid authorization format")
               ELSE IF Len(credentials) # 2
               THEN Challenge(BasicChallenge, "Invalid credentials format")
               ELSE IF ~BasicCredentialsOK(credentials[1], credentials[2],
                                           pathParts[1], pathParts[2])
               THEN Challenge(BasicChallenge, "Invalid username or password")
               ELSE writeJSONResponse(NewResponse, StatusOK,
                        [authenticated |-> TRUE, user |-> credentials[1]])

\* the requests of /basic-auth/: what follows the prefix, and the credentials
\* a client encodes
BasicPathRests ==
    {<<>>, <<"u","s","e","r">>, <<"u","s","e","r","/","p","a","s","s","w","d">>, <<"u","s","e","r","/">>, <<"/">>, <<"u","s","e","r","/","p","a","s","s","w","d","/","x">>,
     <<"a",":","b","/","c">>, <<"u","s","e","r","/","p","a","s","s",":","w","d">>, <<"u","/","p">>}

ClientCredentials ==
    {<<"u","s","e","r",":","p","a","s","s","w","d">>, <<"u","s","e","r",":","w","r","o","n","g">>, <<"o","t","h","e","r",":","p","a","s","s","w","d">>, <<"u","s","e","r">>, <<":">>, <<"u","s","e","r",":">>,
     <<"a",":","b",":","c">>, <<"u","s","e","r",":","p","a","s","s",":","w","d">>, <<"u",":","p">>, <<"U","s","e","r",":","p","a","s","s","w","d">>, <<>>}

BasicAuthHeaders ==
    {<<>>}
    \cup {BasicScheme \o B64Encode(c) : c \in ClientCredentials}
    \cup {<<"B","a","s","i","c"," ","i","n","v","a","l","i","d","!","!","!">>, <<"B","a","s","i","c"," ","d","X","N","l","c","j","p","w","Y","X","N","z","d","2","Q">>,
          <<"B","a","s","i","c"," "," ","d","X","N","l","c","j","p","w","Y","X","N","z","d","2","Q","=">>, <<"B","a","s","i","c"," ","d","X","N","l","c","j","p","w","Y","X","N","z","d","2","Q","=","=">>, <<"B","a","s","i","c"," ","d","T","=","w">>,
          <<"B","a","s","i","c">>, <<"b","a","s","i","c"," ","d","X","N","l","c","j","p","w","Y","X","N","z","d","2","Q","=">>, <<"B","e","a","r","e","r"," ","t","o","k","e","n">>,
          <<"B","a","s","i","c","d","X","N","l","c","j","p","w","Y","X","N","z","d","2","Q","=">>, <<"D","i","g","e","s","t"," ","u","s","e","r","n","a","m","e","=","\"","u","s","e","r","\"">>}

BasicAuthHandler ==
    /\ pc = "idle"
    /\ \E method \in Methods, rest \in BasicPathRests, auth \in BasicAuthHeaders :
         /\ r' = [Request(method, BasicPrefix \o rest) EXCEPT !.auth = auth]
         /\ w' = BasicAuthResponse(BasicPrefix \o rest, auth)
    /\ handler' = "BasicAuthHandler"
    /\ pc' = "done"
    /\ UNCHANGED <<statusWeights, statusCode, draw, rnd, seconds, slept, bodyReads, bodyClosed, logVars, procVars, connVars>>

\* mutant: the token is trimmed of white space
BearerTokenBug(auth) == TrimSpace(TrimPrefix(auth, BearerScheme))
\* the token BearerHandler extracts
BearerToken(auth) == TrimPrefix(auth, BearerScheme)

\* BearerHandler, given r.Header.Get("Authorization")
BearerResponse(auth) ==
    IF auth = <<>> THEN Challenge(BearerChallenge, "Authorization required")
    ELSE IF ~HasPrefix(auth, BearerScheme)
    THEN Challenge(BearerChallenge, "Bearer token required")
    ELSE LET token == BearerToken(auth)
         IN IF token = <<>> THEN Challenge(BearerChallenge, "Bearer token is empty")
            ELSE writeJSONResponse(NewResponse, StatusOK,
                     [authenticated |-> TRUE, token |-> token])

BearerTokens ==
    {<<>>, <<"t">>, <<"m","y","-","t","o","k","e","n","-","1","2","3">>, <<" ">>, <<" ","x">>, <<"B","e","a","r","e","r"," ","t">>, <<"a"," ","b">>, <<"a",".","b",".","c">>,
     <<"x"," ">>, <<"=">>}

BearerAuthHeaders ==
    {<<>>}
    \cup {BearerScheme \o t : t \in BearerTokens}
    \cup {<<"B","e","a","r","e","r">>, <<"b","e","a","r","e","r"," ","t">>, <<"B","E","A","R","E","R"," ","t">>, <<"B","a","s","i","c"," ","t","o","k","e","n">>, <<"B","e","a","r","e","r","t">>,
          <<" ","B","e","a","r","e","r"," ","t">>, <<"T","o","k","e","n"," ","t">>, <<"t">>}
    \cup {BasicScheme \o B64Encode(c) : c \in ClientCredentials}

BearerHandler ==
    /\ pc = "idle"
    /\ \E method \in Methods, auth \in BearerAuthHeaders :
         /\ r' = [Request(method, BearerPath) EXCEPT !.auth = auth]
         /\ w' = BearerResponse(auth)
    /\ handler' = "BearerHandler"
    /\ pc' = "done"
    /\ UNCHANGED <<statusWeights, statusCode, draw, rnd, seconds, slept, bodyReads, bodyClosed, logVars, procVars, connVars>>

\* a map[string]string with one key set
MapSet(m, key, value) ==
    [k \in (DOMAIN m) \cup {key} |-> IF k = key THEN value ELSE m[k]]

NoParams == [k \in {} |-> <<>>]

\* the loop of parseDigestAuth over the comma-separated parts
RECURSIVE ParseDigestParts(_, _)
ParseDigestParts(parts, params) ==
    IF parts = <<>> THEN params
    ELSE LET kv == SplitN2(TrimSpace(Head(parts)), "=")
         IN IF Len(kv) # 2 THEN ParseDigestParts(Tail(parts), params)
            ELSE ParseDigestParts(Tail(parts),
                     MapSet(params, TrimSpace(kv[1]), Trim(TrimSpace(kv[2]), {"\""})))

\* parseDigestAuth
parseDigestAuth(auth) == ParseDigestParts(Split(auth, ","), NoParams)

UsernameKey == <<"u","s","e","r","n","a","m","e">>

\* fmt.Sprintf of the Digest challenge
DigestChallenge(qop, nonce, opaque) ==
    <<"D","i","g","e","s","t"," ","r","e","a","l","m","=","\"","R","e","s","t","r","i","c","t","e","d","\"",","," ","q","o","p","=","\"">> \o qop
    \o <<"\"",","," ","n","o","n","c","e","=","\"">> \o nonce
    \o <<"\"",","," ","o","p","a","q","u","e","=","\"">> \o opaque \o <<"\"">>

\* generateNonce and generateOpaque, given the bytes rand.Read produced and
\* the MD5 sum of the second block (any block: MD5 is not computed here)
generateNonce(bytes) == HexEncode(bytes)
generateOpaque(hash) == HexEncode(hash)

\* mutant: two path segments suffice
DigestPathBug(pathParts) == ~(Len(pathParts) < 2)

\* the path check of DigestAuthHandler
DigestPathOK(pathParts) == ~(Len(pathParts) < 3)

\* mutant: any username directive is accepted
DigestUserBug(digestParams, expectedUser) ==
    ~(UsernameKey \notin DOMAIN digestParams)

\* the username check of DigestAuthHandler
DigestUserOK(digestParams, expectedUser) ==
    ~(UsernameKey \notin DOMAIN digestParams \/ digestParams[UsernameKey] # expectedUser)

\* mutant: a response directive of 32 characters is required
DigestOutcomeBug(path, auth) ==
    LET pathParts == Split(TrimPrefix(path, DigestPrefix), "/")
        digestParams == parseDigestAuth(SubSeq(auth, 8, Len(auth)))
    IN IF ~DigestPathOK(pathParts) THEN "path"
       ELSE IF auth = <<>> THEN "missing"
       ELSE IF ~HasPrefix(auth, DigestScheme) THEN "scheme"
       ELSE IF ~DigestUserOK(digestParams, pathParts[2]) THEN "username"
       ELSE IF <<"r","e","s","p","o","n","s","e">> \notin DOMAIN digestParams
               \/ Len(digestParams[<<"r","e","s","p","o","n","s","e">>]) # 32 THEN "username"
       ELSE "ok"

\* which step of DigestAuthHandler answers: "path", "missing", "scheme",
\* "username" or "ok"
DigestOutcome(path, auth) ==
    LET pathParts == Split(TrimPrefix(path, DigestPrefix), "/")
    IN IF ~DigestPathOK(pathParts) THEN "path"
       ELSE IF auth = <<>> THEN "missing"
       ELSE IF ~HasPrefix(auth, DigestScheme) THEN "scheme"
       ELSE IF ~DigestUserOK(parseDigestAuth(SubSeq(auth, 8, Len(auth))), pathParts[2])
       THEN "username"
       ELSE "ok"

\* DigestAuthHandler, given r.URL.Path, r.Header.Get("Authorization"), the
\* bytes of generateNonce and the sum of generateOpaque
DigestAuthResponse(path, auth, nonceBytes, opaqueSum) ==
    LET pathParts == Split(TrimPrefix(path, DigestPrefix), "/")
        outcome == DigestOutcome(path, auth)
        challenge == DigestChallenge(pathParts[1], generateNonce(nonceBytes),
                                     generateOpaque(opaqueSum))
    IN IF outcome = "path"
       THEN writeJSONError(NewResponse, StatusBadRequest,
                "Invalid path format. Use /digest-auth/{qop}/{user}/{passwd}")
       ELSE IF outcome = "missing" THEN Challenge(challenge, "Authorization required")
       ELSE IF outcome = "scheme"
       THEN Challenge(challenge, "Digest authentication required")
       ELSE IF outcome = "username" THEN Challenge(challenge, "Invalid username")
       ELSE writeJSONResponse(NewResponse, StatusOK,
                [authenticated |-> TRUE,
                 user |-> parseDigestAuth(SubSeq(auth, 8, Len(auth)))[UsernameKey]])

\* the blocks of NonceLen bytes that rand.Read and md5.Sum produce in the model
NonceLen == 16
ByteBlocks == {[i \in 1..NonceLen |-> 0], [i \in 1..NonceLen |-> (i * 37) % 256]}

DigestPathRests ==
    {<<>>, <<"a","u","t","h">>, <<"a","u","t","h","/","u","s","e","r">>, <<"a","u","t","h","/","u","s","e","r","/","p","a","s","s","w","d">>, <<"a","u","t","h","/","u","s","e","r","/","o","t","h","e","r">>,
     <<"a","u","t","h","-","i","n","t","/","u","s","e","r","/","p","a","s","s","w","d">>, <<"/","/">>, <<"a","u","t","h","/","u","s","e","r","/","p","a","s","s","w","d","/","x">>, <<"a","u","t","h","/","u",",","v","/","p">>}

\* the directives of a client's Authorization header, and the header a client
\* writes for them: Digest name="value", name="value", ...
Directive(name, value) == [name |-> name, value |-> value]

RECURSIVE WriteDirectives(_)
WriteDirectives(dirs) ==
    IF dirs = <<>> THEN <<>>
    ELSE Head(dirs).name \o <<"=","\"">> \o Head(dirs).value \o <<"\"">>
         \o (IF Len(dirs) = 1 THEN <<>> ELSE <<","," ">> \o WriteDirectives(Tail(dirs)))

ClientDirectives ==
    {<<Directive(<<"u","s","e","r","n","a","m","e">>, <<"u","s","e","r">>), Directive(<<"r","e","a","l","m">>, <<"R","e","s","t","r","i","c","t","e","d">>),
       Directive(<<"n","o","n","c","e">>, <<"a","b","c","1","2","3">>), Directive(<<"u","r","i">>, <<"/","d","i","g","e","s","t","-","a","u","t","h","/","a","u","t","h","/","u","s","e","r","/","p","a","s","s","w","d">>),
       Directive(<<"r","e","s","p","o","n","s","e">>, <<"6","6","2","9","f","a","e","4","9","3","9","3","a","0","5","3","9","7","4","5","0","9","7","8","5","0","7","c","4","e","f","1">>)>>,
     <<Directive(<<"u","s","e","r","n","a","m","e">>, <<"u","s","e","r">>), Directive(<<"r","e","a","l","m">>, <<"O","t","h","e","r">>),
       Directive(<<"n","o","n","c","e">>, <<"z","z","z">>), Directive(<<"u","r","i">>, <<"/">>),
       Directive(<<"r","e","s","p","o","n","s","e">>, <<"0">>)>>,
     <<Directive(<<"u","s","e","r","n","a","m","e">>, <<"w","r","o","n","g">>), Directive(<<"r","e","a","l","m">>, <<"R","e","s","t","r","i","c","t","e","d">>),
       Directive(<<"n","o","n","c","e">>, <<"a","b","c","1","2","3">>), Directive(<<"u","r","i">>, <<"/","d","i","g","e","s","t","-","a","u","t","h","/","a","u","t","h","/","u","s","e","r","/","p","a","s","s","w","d">>),
       Directive(<<"r","e","s","p","o","n","s","e">>, <<"6","6","2","9","f","a","e","4","9","3","9","3","a","0","5","3","9","7","4","5","0","9","7","8","5","0","7","c","4","e","f","1">>)>>,
     <<Directive(<<"u","s","e","r","n","a","m","e">>, <<"u","s","e","r">>), Directive(<<"r","e","a","l","m">>, <<"O","t","h","e","r">>),
       Directive(<<"n","o","n","c","e">>, <<"z","z","z">>), Directive(<<"u","r","i">>, <<"/","s","e","a","r","c","h","?","q","=","a",",","u","s","e","r","n","a","m","e","=","b">>),
       Directive(<<"r","e","s","p","o","n","s","e">>, <<"0">>)>>}

DigestAuthHeaders ==
    {DigestScheme \o WriteDirectives(dirs) : dirs \in ClientDirectives} \cup
    {<<>>,
     <<"D","i","g","e","s","t"," ","u","s","e","r","n","a","m","e","=","\"","u","s","e","r","\"",","," ","r","e","a","l","m","=","\"","R","e","s","t","r","i","c","t","e","d","\"",","," ","n","o","n","c","e","=","\"","a","b","c","1","2","3","\"",","," ","u","r","i","=","\"","/","d","i","g","e","s","t","-","a","u","t","h","/","a","u","t","h","/","u","s","e","r","/","p","a","s","s","w","d","\"",","," ","r","e","s","p","o","n","s","e","=","\"","6","6","2","9","f","a","e","4","9","3","9","3","a","0","5","3","9","7","4","5","0","9","7","8","5","0","7","c","4","e","f","1","\"">>,
     <<"D","i","g","e","s","t"," ","u","s","e","r","n","a","m","e","=","\"","u","s","e","r","\"",","," ","r","e","a","l","m","=","\"","O","t","h","e","r","\"",","," ","n","o","n","c","e","=","\"","z","z","z","\"",","," ","u","r","i","=","\"","/","\"",","," ","r","e","s","p","o","n","s","e","=","\"","0","\"">>,
     <<"D","i","g","e","s","t"," ","u","s","e","r","n","a","m","e","=","\"","w","r","o","n","g","\"",","," ","r","e","a","l","m","=","\"","R","e","s","t","r","i","c","t","e","d","\"",","," ","n","o","n","c","e","=","\"","a","b","c","1","2","3","\"",","," ","r","e","s","p","o","n","s","e","=","\"","6","6","2","9","f","a","e","4","9","3","9","3","a","0","5","3","9","7","4","5","0","9","7","8","5","0","7","c","4","e","f","1","\"">>,
     <<"D","i","g","e","s","t"," ","u","s","e","r","n","a","m","e","=","\"","u","s","e","r","\"">>,
     <<"D","i","g","e","s","t"," ","u","s","e","r","n","a","m","e","=","u","s","e","r">>,
     <<"D","i","g","e","s","t"," "," ","u","s","e","r","n","a","m","e"," ","="," ","\"","u","s","e","r","\""," ">>,
     <<"D","i","g","e","s","t"," ","u","s","e","r","n","a","m","e","=","\"","\"","u","s","e","r","\"","\"">>,
     <<"D","i","g","e","s","t"," ","u","s","e","r","n","a","m","e","=","\"","u","s","e","r","\"",","," ","u","s","e","r","n","a","m","e","=","\"","w","r","o","n","g","\"">>,
     <<"D","i","g","e","s","t"," ","u","s","e","r","n","a","m","e","=","\"","w","r","o","n","g","\"",","," ","u","s","e","r","n","a","m","e","=","\"","u","s","e","r","\"">>,
     <<"D","i","g","e","s","t"," ","r","e","a","l","m","=","\"","R","e","s","t","r","i","c","t","e","d","\"",","," ","n","o","n","c","e","=","\"","a","b","c","1","2","3","\"">>,
     <<"D","i","g","e","s","t"," ","u","s","e","r","n","a","m","e">>,
     <<"D","i","g","e","s","t"," ","u","s","e","r","n","a","m","e","=">>,
     <<"D","i","g","e","s","t"," ","U","s","e","r","n","a","m","e","=","\"","u","s","e","r","\"">>,
     <<"D","i","g","e","s","t"," ","u","s","e","r","n","a","m","e","=","\"","U","s","e","r","\"">>,
     <<"D","i","g","e","s","t"," ","u","s","e","r","n","a","m","e","=","\"","u",",","v","\"">>,
     <<"D","i","g","e","s","t"," ">>,
     <<"D","i","g","e","s","t">>,
     <<"d","i","g","e","s","t"," ","u","s","e","r","n","a","m","e","=","\"","u","s","e","r","\"">>,
     <<"D","i","g","e","s","t","u","s","e","r","n","a","m","e","=","\"","u","s","e","r","\"">>,
     <<"B","a","s","i","c"," ","d","X","N","l","c","j","p","w","Y","X","N","z","d","2","Q","=">>,
     <<"B","e","a","r","e","r"," ","t","o","k","e","n">>}

DigestAuthHandler ==
    /\ pc = "idle"
    /\ \E method \in Methods, rest \in DigestPathRests, auth \in DigestAuthHeaders :
         \E outcome \in {DigestOutcome(DigestPrefix \o rest, auth)} :
           \E nonceBytes \in ByteBlocks, opaqueBytes \in ByteBlocks, opaqueSum \in ByteBlocks :
              /\ r' = [Request(method, DigestPrefix \o rest) EXCEPT !.auth = auth]
              /\ IF outcome \in {"missing", "scheme", "username"}
                 THEN rnd' = <<nonceBytes, opaqueBytes, opaqueSum>>
                 ELSE rnd' = <<>>
              /\ w' = DigestAuthResponse(DigestPrefix \o rest, auth, nonceBytes, opaqueSum)
    /\ handler' = "DigestAuthHandler"
    /\ pc' = "done"
    /\ UNCHANGED <<statusWeights, statusCode, draw, seconds, slept, bodyReads, bodyClosed, logVars, procVars, connVars>>

(***************************************************************************)
(* encoding/json: json.Unmarshal(body, &jsonData) with jsonData of type    *)
(* any.  A decoded value is a record: nil, bool, number, string, array     *)
(* ([]any) or object (map[string]any).  The numbers of the model's bodies  *)
(* are integers without fraction or exponent, and their strings use no     *)
(* \u escape.                                                              *)
(***************************************************************************)
\* the nil interface value: what an unset "any" holds, and what null decodes to
JSONNil == [kind |-> "nil"]
JSONBool(b) == [kind |-> "bool", val |-> b]
JSONNumber(n) == [kind |-> "number", val |-> n]
JSONString(str) == [kind |-> "string", str |-> str]
JSONArray(elems) == [kind |-> "array", elems |-> elems]
JSONObject(fields) == [kind |-> "object", fields |-> fields]

NoFields == [k \in {} |-> JSONNil]

\* m[key] = val on a map[string]any: a repeated key keeps the last value
PutField(fields, key, val) ==
    [k \in (DOMAIN fields) \cup {key} |-> IF k = key THEN val ELSE fields[k]]

JSONFail == [ok |-> FALSE, val |-> JSONNil, next |-> 0]

\* the white space of JSON
JSONSpace == {" ", "\t", "\n", "\r"}

\* the first position from i on that holds no white space (Len(s) + 1 at the end)
RECURSIVE SkipSpace(_, _)
SkipSpace(s, i) ==
    IF i <= Len(s) /\ s[i] \in JSONSpace THEN SkipSpace(s, i + 1) ELSE i

\* whether lit stands at position i of s
LiteralAt(s, i, lit) ==
    i + Len(lit) - 1 <= Len(s) /\ SubSeq(s, i, i + Len(lit) - 1) = lit

\* the escapes of a JSON string (without \u) and the characters they stand for
Unescaped(c) ==
    IF c = "n" THEN <<"\n">>
    ELSE IF c = "t" THEN <<"\t">>
    ELSE IF c = "r" THEN <<"\r">>
    ELSE IF c \in {"\"", "\\", "/"} THEN <<c>>
    ELSE <<>>

\* the rest of a string literal from position j, acc being what was read of it
RECURSIVE ScanString(_, _, _)
ScanString(s, j, acc) ==
    IF j > Len(s) THEN JSONFail
    ELSE IF s[j] = "\"" THEN [ok |-> TRUE, val |-> JSONString(acc), next |-> j + 1]
    ELSE IF s[j] = "\\"
    THEN IF j + 1 > Len(s) \/ Unescaped(s[j + 1]) = <<>> THEN JSONFail
         ELSE ScanString(s, j + 2, acc \o Unescaped(s[j + 1]))
    ELSE IF s[j] \in {"\n", "\t", "\r"} THEN JSONFail
    ELSE ScanString(s, j + 1, Append(acc, s[j]))

\* the end of the run of digits that starts at i
RECURSIVE DigitsEnd(_, _)
DigitsEnd(s, i) == IF i <= Len(s) /\ IsDigit(s[i]) THEN DigitsEnd(s, i + 1) ELSE i

\* an integer literal at position i: -?(0|[1-9][0-9]*), not followed by a
\* fraction or an exponent
ScanNumber(s, i) ==
    LET neg == s[i] = "-"
        from == IF neg THEN i + 1 ELSE i
        to == DigitsEnd(s, from)
    IN IF to = from THEN JSONFail
       ELSE IF s[from] = "0" /\ to > from + 1 THEN JSONFail
       ELSE IF to <= Len(s) /\ s[to] \in {".", "e", "E"} THEN JSONFail
       ELSE [ok |-> TRUE, next |-> to,
             val |-> JSONNumber(IF neg THEN 0 - DigitsValue(SubSeq(s, from, to - 1))
                                ELSE DigitsValue(SubSeq(s, from, to - 1)))]

RECURSIVE ScanValue(_, _), ScanElements(_, _, _), ScanMembers(_, _, _)

\* the value that starts at position i (white space already skipped)
ScanValue(s, i) ==
    IF i > Len(s) THEN JSONFail
    ELSE IF LiteralAt(s, i, <<"n","u","l","l">>) THEN [ok |-> TRUE, val |-> JSONNil, next |-> i + 4]
    ELSE IF LiteralAt(s, i, <<"t","r","u","e">>) THEN [ok |-> TRUE, val |-> JSONBool(TRUE), next |-> i + 4]
    ELSE IF LiteralAt(s, i, <<"f","a","l","s","e">>) THEN [ok |-> TRUE, val |-> JSONBool(FALSE), next |-> i + 5]
    ELSE IF s[i] = "\"" THEN ScanString(s, i + 1, <<>>)
    ELSE IF s[i] = "-" \/ IsDigit(s[i]) THEN ScanNumber(s, i)
    ELSE IF s[i] = "["
    THEN LET j == SkipSpace(s, i + 1)
         IN IF j <= Len(s) /\ s[j] = "]"
            THEN [ok |-> TRUE, val |-> JSONArray(<<>>), next |-> j + 1]
            ELSE ScanElements(s, j, <<>>)
    ELSE IF s[i] = "{"
    THEN LET j == SkipSpace(s, i + 1)
         IN IF j <= Len(s) /\ s[j] = "}"
            THEN [ok |-> TRUE, val |-> JSONObject(NoFields), next |-> j + 1]
            ELSE ScanMembers(s, j, NoFields)
    ELSE JSONFail

\* the elements of an array from position i, acc being those already read
ScanElements(s, i, acc) ==
    LET elem == ScanValue(s, i)
        j == SkipSpace(s, elem.next)
    IN IF ~elem.ok \/ j > Len(s) THEN JSONFail
       ELSE IF s[j] = "]"
       THEN [ok |-> TRUE, val |-> JSONArray(Append(acc, elem.val)), next |-> j + 1]
       ELSE IF s[j] = ","
       THEN ScanElements(s, SkipSpace(s, j + 1), Append(acc, elem.val))
       ELSE JSONFail

\* the members of an object from position i, acc being those already read
ScanMembers(s, i, acc) ==
    IF i > Len(s) \/ s[i] # "\"" THEN JSONFail
    ELSE LET key == ScanString(s, i + 1, <<>>)
             colon == SkipSpace(s, key.next)
         IN IF ~key.ok \/ colon > Len(s) \/ s[colon] # ":" THEN JSONFail
            ELSE LET member == ScanValue(s, SkipSpace(s, colon + 1))
                     j == SkipSpace(s, member.next)
                     fields == PutField(acc, key.val.str, member.val)
                 IN IF ~member.ok \/ j > Len(s) THEN JSONFail
                    ELSE IF s[j] = "}"
                    THEN [ok |-> TRUE, val |-> JSONObject(fields), next |-> j + 1]
                    ELSE IF s[j] = ","
                    THEN ScanMembers(s, SkipSpace(s, j + 1), fields)
                    ELSE JSONFail

\* json.Unmarshal into an any: (value, err); exactly one value with optional
\* white space around it
Unmarshal(body) ==
    LET got == ScanValue(body, SkipSpace(body, 1))
    IN IF got.ok /\ SkipSpace(body, got.next) = Len(body) + 1
       THEN [err |-> FALSE, val |-> got.val]
       ELSE [err |-> TRUE, val |-> JSONNil]

(***************************************************************************)
(* The request descriptor, /ip and /delay/{n}                              *)
(***************************************************************************)
\* mutant: X-Real-IP takes precedence over X-Forwarded-For
getOriginIPBug(req) ==
    IF req.xri # <<>> THEN req.xri
    ELSE IF req.xff # <<>> THEN TrimSpace(Split(req.xff, ",")[1])
    ELSE LET idx == LastIndex(req.remoteAddr, ":")
         IN IF idx # 0 THEN SubSeq(req.remoteAddr, 1, idx - 1) ELSE req.remoteAddr

\* mutant: a blank first token of X-Forwarded-For falls through to the next source
getOriginIPBlankBug(req) ==
    IF req.xff # <<>> /\ TrimSpace(Split(req.xff, ",")[1]) # <<>>
    THEN TrimSpace(Split(req.xff, ",")[1])
    ELSE IF req.xri # <<>> THEN req.xri
    ELSE LET idx == LastIndex(req.remoteAddr, ":")
         IN IF idx # 0 THEN SubSeq(req.remoteAddr, 1, idx - 1) ELSE req.remoteAddr

\* getOriginIP
getOriginIP(req) ==
    IF req.xff # <<>> THEN TrimSpace(Split(req.xff, ",")[1])
    ELSE IF req.xri # <<>> THEN req.xri
    ELSE LET idx == LastIndex(req.remoteAddr, ":")
         IN IF idx # 0 THEN SubSeq(req.remoteAddr, 1, idx - 1) ELSE req.remoteAddr

\* the value a request carries for a header ("" when it carries none)
HeaderValue(req, name) ==
    IF name = "Authorization" THEN req.auth
    ELSE IF name = "X-Forwarded-For" THEN req.xff
    ELSE IF name = "X-Real-Ip" THEN req.xri
    ELSE IF name = "Content-Type" THEN req.contentType
    ELSE req.userAgent

\* r.Header: the headers the request carries
RequestHeaders(req) ==
    [n \in {h \in {"Authorization", "X-Forwarded-For", "X-Real-Ip", "Content-Type",
                   "User-Agent"} : HeaderValue(req, h) # <<>>} |-> HeaderValue(req, n)]

JSONType == <<"a","p","p","l","i","c","a","t","i","o","n","/","j","s","o","n">>

\* mutant: the body is decoded whatever the Content-Type
WantsJSONBug(req) == Len(req.body) > 0

\* the condition under which extractRequestInfo tries to decode the body
WantsJSON(req) == Len(req.body) > 0 /\ ContainsString(req.contentType, JSONType)

\* the JSON field of the descriptor: set only when the body decodes
DescriptorJSON(req) ==
    IF WantsJSON(req) /\ ~Unmarshal(req.body).err THEN Unmarshal(req.body).val
    ELSE JSONNil

\* mutant: the body of a GET request is not read
ReadFailedSkipsGetBug(req) == req.bodyErr /\ req.method # "GET"

\* mutant: a failed read is not noticed
ReadFailedBug(req) == FALSE

\* io.ReadAll(r.Body) returns an error when the body stream fails
ReadFailed(req) == req.bodyErr

\* extractRequestInfo: (info, err), and whether its deferred r.Body.Close()
\* ran: the defer statement comes after the return of the read error
extractRequestInfo(req) ==
    IF ReadFailed(req) THEN [err |-> TRUE, info |-> <<>>, closed |-> FALSE]
    ELSE [err |-> FALSE, closed |-> TRUE,
          info |-> [method |-> req.method, url |-> req.path,
                    headers |-> RequestHeaders(req), origin |-> getOriginIP(req),
                    body |-> req.body, json |-> DescriptorJSON(req)]]

\* the headers and peer addresses of the requests
ForwardedFors ==
    {<<>>, <<"1",".","2",".","3",".","4",","," ","5",".","6",".","7",".","8">>, <<"1",".","2",".","3",".","4">>, <<" ","1",".","2",".","3",".","4"," ",",","5",".","6",".","7",".","8">>, <<"\t","1",".","2",".","3",".","4">>,
     <<",","5",".","6",".","7",".","8">>, <<" ",","," ","5",".","6",".","7",".","8">>, <<" ">>, <<"a"," ","b",","," ","c">>, <<":",":","1">>}
RealIPs == {<<>>, <<"9",".","9",".","9",".","9">>, <<" ","9",".","9",".","9",".","9"," ">>, <<"7",".","7",".","7",".","7",","," ","8",".","8",".","8",".","8">>, <<":",":","1">>}
RemoteAddrs ==
    {<<"9",".","9",".","9",".","9",":","5","5","5">>, <<"1","0",".","0",".","0",".","1",":","1","2","3","4","5">>, <<"[",":",":","1","]",":","8","0","8","0">>, <<"9",".","9",".","9",".","9">>, <<":","5","5","5">>,
     <<"9",".","9",".","9",".","9",":">>, <<>>}

IPHandler ==
    /\ pc = "idle"
    /\ \E method \in Methods, xff \in ForwardedFors, xri \in RealIPs,
          remoteAddr \in RemoteAddrs :
         \E req \in {[Request(method, <<"/","i","p">>) EXCEPT !.xff = xff, !.xri = xri,
                                                    !.remoteAddr = remoteAddr]} :
           /\ r' = req
           /\ w' = writeJSONResponse(NewResponse, StatusOK, [origin |-> getOriginIP(req)])
    /\ handler' = "IPHandler"
    /\ pc' = "done"
    /\ UNCHANGED <<statusWeights, statusCode, draw, rnd, seconds, slept, bodyReads, bodyClosed, logVars, procVars, connVars>>

DelayPrefix == <<"/","d","e","l","a","y","/">>

\* the check of the delay value in DelayHandler
DelayValueOK(parsed) == ~(~parsed.ok \/ parsed.val < 0)

\* mutant: the delay is not capped
CapDelayBug(n) == n

\* the cap of DelayHandler
CapDelay(n) == IF n > MaxDelay THEN MaxDelay ELSE n

\* the delay values of the requests
DelaySpecs ==
    {Itoa(n) : n \in (0 - DelayMargin)..(MaxDelay + DelayMargin)}
    \cup {<<>>, <<"a","b","c">>, <<"+","3">>, <<"-","0">>, <<"0","0","7">>, <<"1",".","5">>, <<" ","1">>, <<"1","s">>, <<"3","/","4">>,
          <<"3","6","0","0">>, <<"9","2","2","3","3","7","2","0","3","6","8","5","4","7","7","5","8","0","8">>, <<"9","9","9","9","9","9","9","9","9","9","9","9","9","9","9","9","9","9","9","9">>}

Bodies == {<<>>, <<"{","\"","k","e","y","\"",":","\"","v","a","l","u","e","\"","}">>, <<"a","b","c">>}

\* the X-Forwarded-For headers of the requests to /delay/
DelayForwardedFors == {<<>>, <<"1",".","2",".","3",".","4",","," ","5",".","6",".","7",".","8">>, <<",","5",".","6",".","7",".","8">>}

\* DelayHandler up to its call of time.Sleep
DelayHandler ==
    /\ pc = "idle"
    /\ \E method \in Methods, spec \in DelaySpecs, body \in Bodies, bodyErr \in BOOLEAN,
          xff \in DelayForwardedFors :
         \E parsed \in {Atoi(TrimPrefix(DelayPrefix \o spec, DelayPrefix))} :
           /\ r' = [Request(method, DelayPrefix \o spec)
                      EXCEPT !.remoteAddr = <<"1","0",".","0",".","0",".","1",":","1","2","3","4","5">>, !.xff = xff,
                             !.body = body, !.bodyErr = bodyErr]
           /\ IF ~DelayValueOK(parsed)
              THEN /\ w' = writeJSONError(NewResponse, StatusBadRequest, "Invalid delay value")
                   /\ seconds' = <<>>
                   /\ pc' = "done"
              ELSE /\ w' = NewResponse
                   /\ seconds' = <<CapDelay(parsed.val)>>
                   /\ pc' = "sleeping"
    /\ handler' = "DelayHandler"
    /\ UNCHANGED <<statusWeights, statusCode, draw, rnd, slept, bodyReads, bodyClosed, logVars, procVars, connVars>>

\* DelayHandler from the return of time.Sleep to its end
DelayWake ==
    /\ pc = "sleeping"
    /\ handler = "DelayHandler"
    /\ slept' = slept + seconds[1]
    /\ \E got \in {extractRequestInfo(r)} :
         /\ w' = IF got.err
                 THEN writeJSONError(w, StatusInternalServerError, "Failed to read request body")
                 ELSE writeJSONResponse(w, StatusOK, got.info)
         /\ bodyReads' = bodyReads + 1
         /\ bodyClosed' = got.closed
    /\ pc' = "done"
    /\ UNCHANGED <<handler, r, statusWeights, statusCode, draw, rnd, seconds, logVars, procVars, connVars>>


(***************************************************************************)
(* /get, /post, /put, /patch, /delete, /head, /options, /headers and       *)
(* /user-agent                                                             *)
(***************************************************************************)
StatusMethodNotAllowed == 405

\* the verbs that have a route, and the path of each
Verbs == {"GET", "POST", "PUT", "PATCH", "DELETE", "HEAD", "OPTIONS"}
MethodRoute ==
    [m \in Verbs |->
        IF m = "GET" THEN <<"/","g","e","t">>
        ELSE IF m = "POST" THEN <<"/","p","o","s","t">>
        ELSE IF m = "PUT" THEN <<"/","p","u","t">>
        ELSE IF m = "PATCH" THEN <<"/","p","a","t","c","h">>
        ELSE IF m = "DELETE" THEN <<"/","d","e","l","e","t","e">>
        ELSE IF m = "HEAD" THEN <<"/","h","e","a","d">>
        ELSE <<"/","o","p","t","i","o","n","s">>]

AllowValue == "GET, POST, PUT, PATCH, DELETE, HEAD, OPTIONS"

\* mutant: every verb handler sets the Allow header
SetsAllowBug(method) == TRUE

\* whether the handler built for this verb sets the Allow header
SetsAllow(method) == method = "OPTIONS"

\* mutant: the method of the request is not compared
MethodMismatchBug(req, method) == FALSE

\* the method check of the handler built by MethodHandler(method)
MethodMismatch(req, method) == req.method # method

\* the response of the handler built by MethodHandler(method), given what
\* extractRequestInfo returned
MethodResponse(method, got) ==
    IF got.err
    THEN writeJSONError(NewResponse, StatusInternalServerError, "Failed to read request body")
    ELSE IF method = "HEAD"
    THEN WriteHeader(SetHeader(NewResponse, "Content-Type", ContentTypeJSON), StatusOK)
    ELSE writeJSONResponse(IF SetsAllow(method) THEN SetHeader(NewResponse, "Allow", AllowValue)
                           ELSE NewResponse,
                           StatusOK, got.info)

\* the methods, bodies and content types of the requests
RequestMethods == Verbs \cup {"TRACE", "get"}

JSONBodies ==
    {<<>>, <<" ">>, <<"{","\"","k","e","y","\"",":","\"","v","a","l","u","e","\"","}">>, <<"n","u","l","l">>, <<" ","n","u","l","l","\n">>, <<"t","r","u","e">>, <<"f","a","l","s","e">>,
     <<"0">>, <<"-","1","2">>, <<"\"","\"">>, <<"[","]">>, <<"{","}">>, <<"[","1",","," ","\"","a","\"",","," ","n","u","l","l",","," ","{","\"","b","\"",":"," ","[","t","r","u","e","]","}","]">>,
     <<"{","\"","a","\"",":","1",",","\"","a","\"",":","2","}">>, <<"{","\"","k","\"",":","\"","a","\\","n","b","\\","\"","c","\"","}">>, <<"{","\"","k","e","y","\"",":","\"","v","a","l","u","e","\"">>,
     <<"{","k","e","y",":","1","}">>, <<"a","b","c">>, <<"0","1">>, <<"{","\"","a","\"",":","1",",","}">>, <<"[","1",",","]">>, <<"\"","a","b","c">>, <<"n","u","l">>,
     <<"{","\"","a","\"",":","1","}"," ","x">>, <<"{","\"","a","\""," ","1","}">>, <<"-">>}

ContentTypes ==
    {<<>>, JSONType, <<"a","p","p","l","i","c","a","t","i","o","n","/","j","s","o","n",";"," ","c","h","a","r","s","e","t","=","u","t","f","-","8">>, <<"t","e","x","t","/","p","l","a","i","n">>,
     <<"A","p","p","l","i","c","a","t","i","o","n","/","J","S","O","N">>, <<"a","p","p","l","i","c","a","t","i","o","n","/","j","s","o">>}

\* the handler built by MethodHandler(method), on the route of that verb
MethodHandler(method) ==
    /\ pc = "idle"
    /\ \E reqMethod \in RequestMethods, body \in JSONBodies,
          contentType \in ContentTypes, bodyErr \in BOOLEAN :
         \E req \in {[Request(reqMethod, MethodRoute[method])
                        EXCEPT !.remoteAddr = <<"1","0",".","0",".","0",".","1",":","1","2","3","4","5">>, !.body = body,
                               !.bodyErr = bodyErr, !.contentType = contentType]} :
           /\ r' = req
           /\ IF MethodMismatch(req, method)
              THEN /\ w' = writeJSONError(NewResponse, StatusMethodNotAllowed,
                                          "Method not allowed")
                   /\ UNCHANGED <<bodyReads, bodyClosed, logVars, procVars, connVars>>
              ELSE \E got \in {extractRequestInfo(req)} :
                     /\ w' = MethodResponse(method, got)
                     /\ bodyReads' = bodyReads + 1
                     /\ bodyClosed' = got.closed
    /\ handler' = "MethodHandler"
    /\ pc' = "done"
    /\ UNCHANGED <<statusWeights, statusCode, draw, rnd, seconds, slept, logVars, procVars, connVars>>

UserAgents == {<<>>, <<"c","u","r","l","/","8",".","5",".","0">>, <<"M","o","z","i","l","l","a","/","5",".","0"," ","(","X","1","1",";"," ","L","i","n","u","x"," ","x","8","6","_","6","4",")">>}

HeadersHandler ==
    /\ pc = "idle"
    /\ \E method \in RequestMethods, userAgent \in UserAgents,
          contentType \in ContentTypes, xri \in RealIPs, body \in Bodies,
          bodyErr \in BOOLEAN :
         \E req \in {[Request(method, <<"/","h","e","a","d","e","r","s">>)
                        EXCEPT !.remoteAddr = <<"1","0",".","0",".","0",".","1",":","1","2","3","4","5">>, !.xri = xri,
                               !.userAgent = userAgent, !.contentType = contentType,
                               !.body = body, !.bodyErr = bodyErr]} :
           /\ r' = req
           /\ w' = writeJSONResponse(NewResponse, StatusOK,
                                     [headers |-> RequestHeaders(req)])
    /\ handler' = "HeadersHandler"
    /\ pc' = "done"
    /\ UNCHANGED <<statusWeights, statusCode, draw, rnd, seconds, slept, bodyReads, bodyClosed, logVars, procVars, connVars>>

UserAgentHandler ==
    /\ pc = "idle"
    /\ \E method \in RequestMethods, userAgent \in UserAgents, body \in Bodies,
          bodyErr \in BOOLEAN :
         \E req \in {[Request(method, <<"/","u","s","e","r","-","a","g","e","n","t">>)
                        EXCEPT !.remoteAddr = <<"1","0",".","0",".","0",".","1",":","1","2","3","4","5">>,
                               !.userAgent = userAgent,
                               !.body = body, !.bodyErr = bodyErr]} :
           /\ r' = req
           /\ w' = writeJSONResponse(NewResponse, StatusOK,
                                     ("user-agent" :> req.userAgent))
    /\ handler' = "UserAgentHandler"
    /\ pc' = "done"
    /\ UNCHANGED <<statusWeights, statusCode, draw, rnd, seconds, slept, bodyReads, bodyClosed, logVars, procVars, connVars>>

(***************************************************************************)
(* internal/middleware/logging.go: the access log around a handler.  The   *)
(* handler is any sequence of calls on the http.ResponseWriter it is       *)
(* given; the same calls are also made on a writer of its own (direct), as *)
(* when the handler is served without the middleware.                      *)
(***************************************************************************)
\* the writers the middleware is given: the response of the net/http server
\* and the httptest.ResponseRecorder of the tests
WriterKinds == {"response", "recorder"}

\* the 1xx codes the net/http server sends as interim responses, after which
\* the status of the response is still to be written
Informational(code) == code >= 100 /\ code <= 199 /\ code # 101

NewWriter(kind) ==
    [kind |-> kind, status |-> 0, header |-> NoHeaders, body |-> <<>>,
     interim |-> <<>>, writeHeaderCalls |-> 0]

\* what WriteHeader(code) does to the writer: nothing once the status is
\* written; the server's response sends an informational code at once
WriterStatus(u, code) ==
    IF u.status # 0 THEN u
    ELSE IF u.kind = "response" /\ Informational(code)
    THEN [u EXCEPT !.interim = Append(@, code)]
    ELSE [u EXCEPT !.status = code]

\* rw.ResponseWriter.WriteHeader(code), called by the handler or the wrapper
ConnWriteHeader(u, code) ==
    [WriterStatus(u, code) EXCEPT !.writeHeaderCalls = @ + 1]

\* rw.ResponseWriter.Write(b): sends 200 first if no status is written
ConnWrite(u, b) == [WriterStatus(u, StatusOK) EXCEPT !.body = Append(@, b)]

\* w.Header().Set(name, value): the wrapper embeds the writer, so Header is the
\* writer's own
ConnSetHeader(u, name, value) ==
    IF u.status # 0 THEN u
    ELSE [u EXCEPT !.header =
            [n \in (DOMAIN u.header) \cup {name} |->
                IF n = name THEN value ELSE u.header[n]]]

\* the handler has returned without writing a status: the response is 200
ConnFinish(u) == WriterStatus(u, StatusOK)

\* newResponseWriter
newResponseWriter == [statusCode |-> StatusOK, written |-> FALSE]

\* mutant: every WriteHeader call is recorded and passed on
rwWriteHeaderBug(st, code) ==
    [rw |-> [statusCode |-> code, written |-> TRUE],
     under |-> ConnWriteHeader(st.under, code)]

\* (*responseWriter).WriteHeader, on the wrapper and the writer it embeds
rwWriteHeader(st, code) ==
    IF ~st.rw.written
    THEN [rw |-> [statusCode |-> code, written |-> TRUE],
          under |-> ConnWriteHeader(st.under, code)]
    ELSE st

\* mutant: a Write that comes first sends its status and loses its bytes
rwWriteBug(st, b) ==
    IF ~st.rw.written THEN rwWriteHeader(st, StatusOK)
    ELSE [st EXCEPT !.under = ConnWrite(st.under, b)]

\* (*responseWriter).Write
rwWrite(st, b) ==
    LET s1 == IF ~st.rw.written THEN rwWriteHeader(st, StatusOK) ELSE st
    IN [s1 EXCEPT !.under = ConnWrite(s1.under, b)]

\* the calls of the handlers: status codes, chunks and a header
LogCodes == {103, 200, 201, 404, 500}
LogChunks == {"part1", "part2"}
LogPaths == {<<"/","t","e","s","t">>, <<"/","e","r","r","o","r">>}

\* Logging, up to the call of the next handler
Logging ==
    /\ pc = "idle"
    /\ \E method \in Methods, path \in LogPaths, kind \in WriterKinds :
         /\ r' = [Request(method, path) EXCEPT !.remoteAddr = <<"1","0",".","0",".","0",".","1",":","1","2","3","4","5">>]
         /\ under' = NewWriter(kind)
         /\ direct' = NewWriter(kind)
         /\ logged' = <<[method |-> method, path |-> path]>>
    /\ wrapped' = newResponseWriter
    /\ calls' = <<>>
    /\ handler' = "Logging"
    /\ pc' = "serving"
    /\ UNCHANGED <<w, handlerVars, procVars, connVars>>

\* the handler calls w.WriteHeader(code)
NextWriteHeader ==
    /\ pc = "serving"
    /\ handler = "Logging"
    /\ Len(calls) < MaxCalls
    /\ \E code \in LogCodes :
         \E st \in {rwWriteHeader([rw |-> wrapped, under |-> under], code)} :
           /\ wrapped' = st.rw
           /\ under' = st.under
           /\ direct' = ConnWriteHeader(direct, code)
           /\ calls' = Append(calls, [op |-> "WriteHeader", code |-> code])
    /\ UNCHANGED <<pc, handler, r, w, logged, handlerVars, procVars, connVars>>

\* the handler calls w.Write(b)
NextWrite ==
    /\ pc = "serving"
    /\ handler = "Logging"
    /\ Len(calls) < MaxCalls
    /\ \E b \in LogChunks :
         \E st \in {rwWrite([rw |-> wrapped, under |-> under], b)} :
           /\ wrapped' = st.rw
           /\ under' = st.under
           /\ direct' = ConnWrite(direct, b)
           /\ calls' = Append(calls, [op |-> "Write", b |-> b])
    /\ UNCHANGED <<pc, handler, r, w, logged, handlerVars, procVars, connVars>>

\* the handler calls w.Header().Set("Content-Type", "application/json")
NextSetHeader ==
    /\ pc = "serving"
    /\ handler = "Logging"
    /\ Len(calls) < MaxCalls
    /\ under' = ConnSetHeader(under, "Content-Type", ContentTypeJSON)
    /\ direct' = ConnSetHeader(direct, "Content-Type", ContentTypeJSON)
    /\ calls' = Append(calls, [op |-> "Set"])
    /\ UNCHANGED <<pc, handler, r, w, wrapped, logged, handlerVars, procVars, connVars>>

\* the handler returns: Logging logs wrapped.statusCode and the server ends
\* the response
LoggingReturn ==
    /\ pc = "serving"
    /\ handler = "Logging"
    /\ logged' = Append(logged, [method |-> r.method, path |-> r.path,
                                 statusCode |-> wrapped.statusCode])
    /\ under' = ConnFinish(under)
    /\ direct' = ConnFinish(direct)
    /\ pc' = "done"
    /\ UNCHANGED <<handler, r, w, wrapped, calls, handlerVars, procVars, connVars>>

(***************************************************************************)
(* cmd/httpbin/main.go: the main goroutine, the goroutine that runs        *)
(* srv.Start, the signals and the requests in flight.                      *)
(***************************************************************************)
\* the bound of the context handed to srv.Shutdown, in seconds
ShutdownTimeout == 10

InitProc ==
    /\ mainPc = "start"
    /\ servePc = "none"
    /\ inShutdown = FALSE
    /\ inflight = 0
    /\ quit = 0
    /\ exited = "running"
    /\ procLog = <<>>
    /\ elapsed = 0

\* main: go func() { ... srv.Start() ... }()
MainGo ==
    /\ exited = "running"
    /\ mainPc = "start"
    /\ mainPc' = "notify"
    /\ servePc' = "starting"
    /\ UNCHANGED <<inShutdown, inflight, quit, exited, procLog, elapsed, notProc>>

\* main: quit := make(chan os.Signal, 1); signal.Notify(quit, SIGINT, SIGTERM)
MainNotify ==
    /\ exited = "running"
    /\ mainPc = "notify"
    /\ mainPc' = "waiting"
    /\ UNCHANGED <<servePc, inShutdown, inflight, quit, exited, procLog, elapsed, notProc>>

\* SIGINT or SIGTERM arrives: before signal.Notify it ends the process; after
\* it, it is put in the channel unless the channel is full
Signal ==
    /\ exited = "running"
    /\ IF mainPc \in {"start", "notify"}
       THEN exited' = "killed" /\ quit' = quit
       ELSE exited' = exited /\ quit' = 1
    /\ UNCHANGED <<mainPc, servePc, inShutdown, inflight, procLog, elapsed, notProc>>

\* the goroutine: log.Printf("Starting ..."), then ListenAndServe either
\* listens or returns an error at once (the address cannot be bound, or
\* Shutdown has already been called)
ServeListen ==
    /\ exited = "running"
    /\ servePc = "starting"
    /\ procLog' = Append(procLog, "Starting httpbin server")
    /\ \/ ~inShutdown /\ servePc' = "serving"
       \/ servePc' = "returned"
    /\ UNCHANGED <<mainPc, inShutdown, inflight, quit, exited, elapsed, notProc>>

\* the server accepts a request
Accept ==
    /\ exited = "running"
    /\ servePc = "serving"
    /\ ~inShutdown
    /\ inflight < MaxInflight
    /\ inflight' = inflight + 1
    /\ UNCHANGED <<mainPc, servePc, inShutdown, quit, exited, procLog, elapsed, notProc>>

\* a request in flight is answered
RequestDone ==
    /\ exited = "running"
    /\ inflight > 0
    /\ inflight' = inflight - 1
    /\ UNCHANGED <<mainPc, servePc, inShutdown, quit, exited, procLog, elapsed, notProc>>

\* main: <-quit, log.Println("Shutting down server..."), context.WithTimeout,
\* and the call of srv.Shutdown, which closes the listener
MainReceive ==
    /\ exited = "running"
    /\ mainPc = "waiting"
    /\ quit = 1
    /\ quit' = 0
    /\ procLog' = Append(procLog, "Shutting down server...")
    /\ elapsed' = 0
    /\ inShutdown' = TRUE
    /\ mainPc' = "shutdown"
    /\ UNCHANGED <<servePc, inflight, exited, notProc>>

\* a second of the context's bound passes
Tick ==
    /\ exited = "running"
    /\ mainPc = "shutdown"
    /\ elapsed < ShutdownTimeout
    /\ elapsed' = elapsed + 1
    /\ UNCHANGED <<mainPc, servePc, inShutdown, inflight, quit, exited, procLog, notProc>>

\* the goroutine: once Shutdown has closed the listener, ListenAndServe
\* returns http.ErrServerClosed
ServeClosed ==
    /\ exited = "running"
    /\ servePc = "serving"
    /\ inShutdown
    /\ servePc' = "returned"
    /\ UNCHANGED <<mainPc, inShutdown, inflight, quit, exited, procLog, elapsed, notProc>>

\* the goroutine: if err := srv.Start(); err != nil { log.Fatalf(...) }, and
\* log.Fatalf calls os.Exit(1)
FatalExit(err) == IF err THEN "exit1" ELSE "running"

\* the goroutine: srv.Start has returned; its error is never nil
ServeFatal ==
    /\ exited = "running"
    /\ servePc = "returned"
    /\ servePc' = "done"
    /\ exited' = FatalExit(TRUE)
    /\ procLog' = Append(procLog, "Server failed to start")
    /\ UNCHANGED <<mainPc, inShutdown, inflight, quit, elapsed, notProc>>

\* main: srv.Shutdown returns nil when no request is in flight
ShutdownDrained ==
    /\ exited = "running"
    /\ mainPc = "shutdown"
    /\ inflight = 0
    /\ mainPc' = "exiting"
    /\ UNCHANGED <<servePc, inShutdown, inflight, quit, exited, procLog, elapsed, notProc>>

\* main: srv.Shutdown returns the context's error when the bound has elapsed
\* with requests in flight, and log.Fatalf ends the process
ShutdownDeadline ==
    /\ exited = "running"
    /\ mainPc = "shutdown"
    /\ inflight > 0
    /\ elapsed = ShutdownTimeout
    /\ mainPc' = "fatal"
    /\ exited' = "exit1"
    /\ procLog' = Append(procLog, "Server forced to shutdown")
    /\ UNCHANGED <<servePc, inShutdown, inflight, quit, elapsed, notProc>>

\* main: log.Println("Server exited") and the return of main
MainExit ==
    /\ exited = "running"
    /\ mainPc = "exiting"
    /\ mainPc' = "done"
    /\ exited' = "exit0"
    /\ procLog' = Append(procLog, "Server exited")
    /\ UNCHANGED <<servePc, inShutdown, inflight, quit, elapsed, notProc>>

ProcNext ==
    \/ MainGo
    \/ MainNotify
    \/ Signal
    \/ ServeListen
    \/ Accept
    \/ RequestDone
    \/ MainReceive
    \/ Tick
    \/ ServeClosed
    \/ ServeFatal
    \/ ShutdownDrained
    \/ ShutdownDeadline
    \/ MainExit

(***************************************************************************)
(* Requests served concurrently: net/http runs each connection's handler   *)
(* in a goroutine of its own.  The handlers have no package-level state    *)
(* but the generator of math/rand.                                         *)
(***************************************************************************)
Conns == 1..NConns

IdleConn ==
    [pc |-> "idle", handler |-> "none", r |-> NoRequest, w |-> NewResponse,
     weights |-> <<>>, draw |-> <<>>, seconds |-> <<>>]

InitConns ==
    /\ conns = [i \in Conns |-> IdleConn]
    /\ rngState = <<>>
    /\ suspended = {}

\* init of package handlers: rand.Seed(time.Now().UnixNano()), before any
\* request is served
Seed ==
    /\ rngState = <<>>
    /\ \E seed \in 0..(DrawRes - 1) : rngState' = <<seed>>
    /\ UNCHANGED <<conns, suspended, notConns>>

\* mutant: time.Sleep suspends every goroutine of the process
SleepSuspendsBug(i) == Conns

\* the goroutines time.Sleep suspends: the one that calls it
SleepSuspends(i) == {i}

ConcStatusSpecs == {<<"2","0","0">>, <<"2","0","0",":","1",",","5","0","0",":","1">>, <<"4","0","4",":","0",".","5",",","5","0","0",":","0",",","2","0","0",":","1">>, <<"a","b","c">>}
ConcDelaySpecs == {<<"0">>, <<"1">>, <<"1","1">>, <<"-","1">>}

\* StatusHandler on connection i, up to its call of rand.Float64
ConnStatus(i) ==
    /\ rngState # <<>>
    /\ i \notin suspended
    /\ conns[i].pc = "idle"
    /\ \E spec \in ConcStatusSpecs :
         \E parsed \in {parseStatusCodes(StatusPrefix \o spec)} :
           conns' = [conns EXCEPT ![i] =
               [pc |-> IF StatusDraws(parsed) THEN "drawing" ELSE "done",
                handler |-> "StatusHandler",
                r |-> Request("GET", StatusPrefix \o spec),
                w |-> IF StatusDraws(parsed) THEN NewResponse
                      ELSE StatusResponse(parsed, 0),
                weights |-> parsed.weights, draw |-> <<>>, seconds |-> <<>>]]
    /\ UNCHANGED <<rngState, suspended, notConns>>

\* StatusHandler on connection i, from rand.Float64 to its end: the draw
\* comes from the generator of the process, which moves on
ConnDraw(i) ==
    /\ i \notin suspended
    /\ conns[i].pc = "drawing"
    /\ \E k \in {rngState[1]}, weights \in {conns[i].weights} :
         /\ conns' = [conns EXCEPT
                ![i].pc = "done",
                ![i].draw = <<k>>,
                ![i].w = StatusResponse([err |-> FALSE, weights |-> weights], k)]
         /\ rngState' = <<(k + 1) % DrawRes>>
    /\ UNCHANGED <<suspended, notConns>>

\* DelayHandler on connection i, up to its call of time.Sleep
ConnDelay(i) ==
    /\ rngState # <<>>
    /\ i \notin suspended
    /\ conns[i].pc = "idle"
    /\ \E spec \in ConcDelaySpecs :
         \E parsed \in {Atoi(TrimPrefix(DelayPrefix \o spec, DelayPrefix))} :
           IF ~DelayValueOK(parsed)
           THEN /\ conns' = [conns EXCEPT ![i] =
                       [pc |-> "done", handler |-> "DelayHandler",
                        r |-> Request("GET", DelayPrefix \o spec),
                        w |-> writeJSONError(NewResponse, StatusBadRequest,
                                             "Invalid delay value"),
                        weights |-> <<>>, draw |-> <<>>, seconds |-> <<>>]]
                /\ suspended' = suspended
           ELSE /\ conns' = [conns EXCEPT ![i] =
                       [pc |-> "sleeping", handler |-> "DelayHandler",
                        r |-> Request("GET", DelayPrefix \o spec),
                        w |-> NewResponse,
                        weights |-> <<>>, draw |-> <<>>,
                        seconds |-> <<CapDelay(parsed.val)>>]]
                /\ suspended' = suspended \cup SleepSuspends(i)
    /\ UNCHANGED <<rngState, notConns>>

\* DelayHandler on connection i, from the return of time.Sleep to its end
ConnWake(i) ==
    /\ conns[i].pc = "sleeping"
    /\ suspended' = suspended \ SleepSuspends(i)
    /\ \E got \in {extractRequestInfo(conns[i].r)} :
         conns' = [conns EXCEPT
             ![i].pc = "done",
             ![i].w = IF got.err
                      THEN writeJSONError(conns[i].w, StatusInternalServerError,
                                          "Failed to read request body")
                      ELSE writeJSONResponse(conns[i].w, StatusOK, got.info)]
    /\ UNCHANGED <<rngState, notConns>>

\* the response of connection i is sent; the connection takes its next request
ConnNext(i) ==
    /\ i \notin suspended
    /\ conns[i].pc = "done"
    /\ conns' = [conns EXCEPT ![i] = IdleConn]
    /\ UNCHANGED <<rngState, suspended, notConns>>

\* a step of the goroutine of connection i
ConnStep(i) ==
    \/ ConnStatus(i)
    \/ ConnDraw(i)
    \/ ConnDelay(i)
    \/ ConnWake(i)
    \/ ConnNext(i)

ConcNext ==
    \/ Seed
    \/ \E i \in Conns : ConnStatus(i)
    \/ \E i \in Conns : ConnDraw(i)
    \/ \E i \in Conns : ConnDelay(i)
    \/ \E i \in Conns : ConnWake(i)
    \/ \E i \in Conns : ConnNext(i)
(***************************************************************************)
(* The server: it serves one request after another.                        *)
(***************************************************************************)
Init ==
    /\ pc = "idle"
    /\ handler = "none"
    /\ r = NoRequest
    /\ w = NewResponse
    /\ statusWeights = <<>>
    /\ statusCode = <<>>
    /\ draw = <<>>
    /\ rnd = <<>>
    /\ seconds = <<>>
    /\ slept = 0
    /\ bodyReads = 0
    /\ bodyClosed = FALSE
    /\ wrapped = newResponseWriter
    /\ under = NewWriter("response")
    /\ direct = NewWriter("response")
    /\ calls = <<>>
    /\ logged = <<>>
    /\ InitProc
    /\ InitConns

\* the handler has returned; the server takes the next request
NextRequest ==
    /\ pc = "done"
    /\ pc' = "idle"
    /\ handler' = "none"
    /\ r' = NoRequest
    /\ w' = NewResponse
    /\ statusWeights' = <<>>
    /\ statusCode' = <<>>
    /\ draw' = <<>>
    /\ rnd' = <<>>
    /\ seconds' = <<>>
    /\ slept' = 0
    /\ bodyReads' = 0
    /\ bodyClosed' = FALSE
    /\ wrapped' = newResponseWriter
    /\ under' = NewWriter("response")
    /\ direct' = NewWriter("response")
    /\ calls' = <<>>
    /\ logged' = <<>>
    /\ UNCHANGED <<procVars, connVars>>

Next ==
    \/ StatusHandler
    \/ BasicAuthHandler
    \/ BearerHandler
    \/ DigestAuthHandler
    \/ IPHandler
    \/ DelayHandler
    \/ DelayWake
    \/ \E method \in Verbs : MethodHandler(method)
    \/ HeadersHandler
    \/ UserAgentHandler
    \/ NextRequest

Spec == Init /\ [][Next]_vars

\* the logging middleware around any handler
LogNext ==
    \/ Logging
    \/ NextWriteHeader
    \/ NextWrite
    \/ NextSetHeader
    \/ LoggingReturn
    \/ NextRequest

LogSpec == Init /\ [][LogNext]_vars

\* the process from its start to its exit
ProcSpec == Init /\ [][ProcNext]_vars

\* the connections served concurrently
ConcSpec == Init /\ [][ConcNext]_vars

Done(h) == pc = "done" /\ handler = h

(***************************************************************************)
(* Claims.                                                                 *)
(***************************************************************************)
\* the JSON error response a client receives
IsJSONError(rw, status) ==
    /\ rw.status = status
    /\ "Content-Type" \in DOMAIN rw.header
    /\ rw.header["Content-Type"] = ContentTypeJSON
    /\ Len(rw.body) = 1
    /\ DOMAIN rw.body[1].json = {"error"}

\* the spec of the /status/ request being served
StatusSpecOf == TrimPrefix(r.path, StatusPrefix)

\* the path /status/{c} of each code c around the valid range
PlainStatusPath == [c \in (MinStatus - Margin)..(MaxStatus + Margin) |-> StatusPrefix \o Itoa(c)]
ValidPlainPaths == {PlainStatusPath[c] : c \in MinStatus..MaxStatus}
InvalidPlainPaths == {PlainStatusPath[c] : c \in (DOMAIN PlainStatusPath) \ (MinStatus..MaxStatus)}

\* C1: for every integer c with 100 <= c <= 599, StatusHandler on /status/{c}
\* writes exactly status c, no body bytes and no Content-Type header.
C1_PlainStatus ==
    (Done("StatusHandler") /\ r.path \in ValidPlainPaths) =>
        \A c \in MinStatus..MaxStatus :
            r.path = PlainStatusPath[c] =>
                /\ w.status = c
                /\ w.writeHeaderCalls = 1
                /\ w.body = <<>>
                /\ "Content-Type" \notin DOMAIN w.header

C1_Witness ==
    /\ Done("StatusHandler")
    /\ r.path = StatusPrefix \o Itoa(MaxStatus)
    /\ w.status = MaxStatus
    /\ w.body = <<>>

\* a decimal integer as written: an optional sign and one or more digits
IsIntegerLiteral(s) ==
    LET ds == IF s # <<>> /\ Head(s) \in {"+", "-"} THEN Tail(s) ELSE s
    IN ds # <<>> /\ \A i \in 1..Len(ds) : ds[i] \in {"0","1","2","3","4","5","6","7","8","9"}

\* C2: StatusHandler answers 400 with a JSON error when the spec is empty, is
\* an unweighted non-integer, or resolves to a code outside [100,599]; the
\* status it writes always lies in [100,599].
C2_StatusInRange ==
    Done("StatusHandler") =>
        /\ w.status \in MinStatus..MaxStatus
        /\ StatusSpecOf = <<>> => IsJSONError(w, StatusBadRequest)
        /\ (~Contains(StatusSpecOf, ":") /\ ~IsIntegerLiteral(StatusSpecOf))
               => IsJSONError(w, StatusBadRequest)
        /\ r.path \in InvalidPlainPaths => IsJSONError(w, StatusBadRequest)
        /\ (statusCode # <<>> /\ statusCode[1] \notin MinStatus..MaxStatus)
               => IsJSONError(w, StatusBadRequest)
        /\ (statusCode # <<>> /\ statusCode[1] \in MinStatus..MaxStatus)
               => w.status = statusCode[1]

C2_Witness ==
    /\ Done("StatusHandler")
    /\ Len(parseStatusCodes(r.path).weights) >= 2
    /\ statusCode = <<600>>
    /\ w.status = StatusBadRequest

\* C3: for a multi-entry weighted spec with at least one strictly positive
\* weight and a draw in [0, totalWeight), selectStatusCode never returns the
\* code of an entry whose weight is 0.
C3_ZeroWeightNeverSelected ==
    LET weights == parseStatusCodes(r.path).weights
        total == SumWeights(weights, Len(weights))
    IN (/\ Done("StatusHandler")
        /\ Len(weights) >= 2
        /\ \E i \in 1..Len(weights) : weights[i].weight > 0
        /\ total > 0
        /\ draw # <<>>)
       => statusCode[1] \in {weights[i].code : i \in {j \in 1..Len(weights) : weights[j].weight # 0}}

\* the number of '/'-separated segments of a string, counted from its slashes
Segments(s) == Cardinality({i \in 1..Len(s) : s[i] = "/"}) + 1

\* the k-th '/'-separated segment of s (k at most Segments(s))
Segment(s, k) ==
    LET slashes == {i \in 1..Len(s) : s[i] = "/"}
        from == IF k = 1 THEN 1
                ELSE 1 + (CHOOSE i \in slashes : Cardinality({j \in slashes : j < i}) = k - 2)
        upto == IF k > Cardinality(slashes) THEN Len(s)
                ELSE (CHOOSE i \in slashes : Cardinality({j \in slashes : j < i}) = k - 1) - 1
    IN SubSeq(s, from, upto)

HasChallenge(rw) == "WWW-Authenticate" \in DOMAIN rw.header

BasicRestOf == TrimPrefix(r.path, BasicPrefix)
DigestRestOf == TrimPrefix(r.path, DigestPrefix)

\* C4: BasicAuthHandler on /basic-auth/{user}/{passwd} answers 200 with
\* {"authenticated":true,"user":<user>} if and only if Authorization is
\* "Basic " plus valid base64 whose payload, split at its first colon, gives
\* {user} and {passwd}; every other case gives 401.
C4_BasicAuth ==
    (Done("BasicAuthHandler") /\ Segments(BasicRestOf) >= 2) =>
        LET user == Segment(BasicRestOf, 1)
            passwd == Segment(BasicRestOf, 2)
            payload == B64Decode(SubSeq(r.auth, Len(BasicScheme) + 1, Len(r.auth)))
            colon == Index(payload.data, ":")
            accepted ==
                /\ HasPrefix(r.auth, BasicScheme)
                /\ payload.ok
                /\ colon # 0
                /\ SubSeq(payload.data, 1, colon - 1) = user
                /\ SubSeq(payload.data, colon + 1, Len(payload.data)) = passwd
        IN /\ w.status \in {StatusOK, StatusUnauthorized}
           /\ w.status = StatusOK <=> accepted
           /\ w.status = StatusOK =>
                 w.body = <<JSONEncode([authenticated |-> TRUE, user |-> user])>>
           /\ \A c \in ClientCredentials :
                 r.auth = BasicScheme \o B64Encode(c) =>
                    (w.status = StatusOK <=>
                        (c = user \o <<":">> \o passwd /\ ~Contains(user, ":")))

C4_Witness ==
    /\ Done("BasicAuthHandler")
    /\ BasicRestOf = <<"u","s","e","r","/","p","a","s","s","w","d">>
    /\ r.auth = <<"B","a","s","i","c"," ","d","X","N","l","c","j","p","w","Y","X","N","z","d","2","Q","=">>
    /\ w.status = StatusOK
    /\ w.body[1].json.user = <<"u","s","e","r">>

\* the Digest challenge written out: realm, the qop, a nonce and an opaque
ExpectedDigestChallenge(qop, nonce, opaque) ==
    <<"D","i","g","e","s","t"," ","r","e","a","l","m","=","\"","R","e","s","t","r","i","c","t","e","d","\"",","," ","q","o","p","=","\"">> \o qop \o <<"\"",","," ","n","o","n","c","e","=","\"">> \o nonce
    \o <<"\"",","," ","o","p","a","q","u","e","=","\"">> \o opaque \o <<"\"">>

IsHex32(s) ==
    /\ Len(s) = 32
    /\ \A i \in 1..Len(s) : s[i] \in {"0","1","2","3","4","5","6","7","8","9",
                                      "a","b","c","d","e","f"}

\* C5: every 401 of the three auth handlers carries the WWW-Authenticate
\* header of the handler's own scheme (for Digest: realm, the qop of the first
\* path segment, and the nonce and opaque generated for that response); no 200
\* or 400 of these handlers carries the header.
C5_Challenges ==
    /\ Done("BasicAuthHandler") =>
          /\ w.status \in {StatusOK, StatusBadRequest, StatusUnauthorized}
          /\ w.status = StatusUnauthorized =>
                (HasChallenge(w) /\ w.header["WWW-Authenticate"] = <<"B","a","s","i","c"," ","r","e","a","l","m","=","\"","R","e","s","t","r","i","c","t","e","d","\"">>)
          /\ w.status # StatusUnauthorized => ~HasChallenge(w)
    /\ Done("BearerHandler") =>
          /\ w.status \in {StatusOK, StatusUnauthorized}
          /\ w.status = StatusUnauthorized =>
                (HasChallenge(w) /\ w.header["WWW-Authenticate"] = <<"B","e","a","r","e","r"," ","r","e","a","l","m","=","\"","R","e","s","t","r","i","c","t","e","d","\"">>)
          /\ w.status # StatusUnauthorized => ~HasChallenge(w)
    /\ Done("DigestAuthHandler") =>
          /\ w.status \in {StatusOK, StatusBadRequest, StatusUnauthorized}
          /\ w.status = StatusUnauthorized =>
                /\ HasChallenge(w)
                /\ Len(rnd) = 3
                /\ IsHex32(HexEncode(rnd[1])) /\ IsHex32(HexEncode(rnd[3]))
                /\ w.header["WWW-Authenticate"] =
                      ExpectedDigestChallenge(Segment(DigestRestOf, 1),
                                              HexEncode(rnd[1]), HexEncode(rnd[3]))
          /\ w.status # StatusUnauthorized => (~HasChallenge(w) /\ rnd = <<>>)

C5_Witness ==
    /\ Done("DigestAuthHandler")
    /\ DigestRestOf = <<"a","u","t","h","-","i","n","t","/","u","s","e","r","/","p","a","s","s","w","d">>
    /\ w.status = StatusUnauthorized
    /\ HasChallenge(w)
    /\ rnd # <<>> /\ rnd[1][1] # 0 /\ rnd[3][1] = 0

\* C6: with fewer than two segments after /basic-auth/, or fewer than three
\* after /digest-auth/, the handler answers 400 with a JSON error and no
\* WWW-Authenticate header, whatever the Authorization header is.
C6_PathCheckFirst ==
    /\ (Done("BasicAuthHandler") /\ Segments(BasicRestOf) < 2) =>
          (IsJSONError(w, StatusBadRequest) /\ ~HasChallenge(w))
    /\ (Done("DigestAuthHandler") /\ Segments(DigestRestOf) < 3) =>
          (IsJSONError(w, StatusBadRequest) /\ ~HasChallenge(w))

C6_Witness ==
    /\ Done("DigestAuthHandler")
    /\ DigestRestOf = <<"a","u","t","h","/","u","s","e","r">>
    /\ r.auth = <<"D","i","g","e","s","t"," ","u","s","e","r","n","a","m","e","=","\"","u","s","e","r","\"">>
    /\ w.status = StatusBadRequest

\* C7: BearerHandler answers 200 with {"authenticated":true,"token":t} exactly
\* when Authorization is "Bearer " followed by a non-empty t, echoed unchanged;
\* a missing header, another scheme or an empty token gives 401.
C7_Bearer ==
    Done("BearerHandler") =>
        LET accepted == HasPrefix(r.auth, BearerScheme) /\ Len(r.auth) > Len(BearerScheme)
        IN /\ w.status \in {StatusOK, StatusUnauthorized}
           /\ w.status = StatusOK <=> accepted
           /\ w.status = StatusUnauthorized => IsJSONError(w, StatusUnauthorized)
           /\ \A t \in BearerTokens :
                 r.auth = BearerScheme \o t =>
                    /\ w.status = StatusOK <=> t # <<>>
                    /\ w.status = StatusOK =>
                          w.body = <<JSONEncode([authenticated |-> TRUE, token |-> t])>>
           /\ w.status = StatusOK =>
                 /\ DOMAIN w.body[1].json = {"authenticated", "token"}
                 /\ r.auth = BearerScheme \o w.body[1].json.token

C7_Witness ==
    /\ Done("BearerHandler")
    /\ r.auth = <<"B","e","a","r","e","r"," "," ","x">>
    /\ w.status = StatusOK
    /\ w.body[1].json.token = <<" ","x">>

\* C8: DigestAuthHandler on a path of at least three segments answers 200
\* with {"authenticated":true,"user":<user>} if and only if Authorization
\* starts with "Digest " and its parsed username directive equals the path's
\* user segment; otherwise 401.
C8_Digest ==
    (Done("DigestAuthHandler") /\ Segments(DigestRestOf) >= 3) =>
        LET user == Segment(DigestRestOf, 2)
            params == parseDigestAuth(SubSeq(r.auth, Len(DigestScheme) + 1, Len(r.auth)))
            accepted ==
                /\ HasPrefix(r.auth, DigestScheme)
                /\ UsernameKey \in DOMAIN params
                /\ params[UsernameKey] = user
        IN /\ w.status \in {StatusOK, StatusUnauthorized}
           /\ w.status = StatusOK <=> accepted
           /\ w.status = StatusOK =>
                 w.body = <<JSONEncode([authenticated |-> TRUE, user |-> user])>>
           /\ w.status = StatusUnauthorized => IsJSONError(w, StatusUnauthorized)

C8_Witness ==
    /\ Done("DigestAuthHandler")
    /\ DigestRestOf = <<"a","u","t","h","/","u","s","e","r","/","p","a","s","s","w","d">>
    /\ r.auth = <<"D","i","g","e","s","t"," ","u","s","e","r","n","a","m","e","=","\"","u","s","e","r","\"",","," ","r","e","a","l","m","=","\"","O","t","h","e","r","\"",","," ","n","o","n","c","e","=","\"","z","z","z","\"",","," ","u","r","i","=","\"","/","\"",","," ","r","e","s","p","o","n","s","e","=","\"","0","\"">>
    /\ w.status = StatusOK
    /\ w.body[1].json.user = <<"u","s","e","r">>

\* t is s without its leading and trailing white space
IsTrimOf(t, s) ==
    \E a \in 0..Len(s) : \E b \in a..Len(s) :
        /\ t = SubSeq(s, a + 1, b)
        /\ \A j \in 1..a : s[j] \in SpaceChars
        /\ \A j \in (b + 1)..Len(s) : s[j] \in SpaceChars
        /\ t = <<>> \/ (t[1] \notin SpaceChars /\ t[Len(t)] \notin SpaceChars)

\* tok is what precedes the first comma of s (all of s when it has none)
IsFirstToken(tok, s) ==
    \E n \in 0..Len(s) :
        /\ tok = SubSeq(s, 1, n)
        /\ n = Len(s) \/ s[n + 1] = ","
        /\ \A j \in 1..n : s[j] # ","

\* t is s with everything from its last colon removed (s when it has none)
IsHostOf(t, s) ==
    \/ (\A j \in 1..Len(s) : s[j] # ":") /\ t = s
    \/ \E i \in 1..Len(s) :
          /\ s[i] = ":"
          /\ \A j \in (i + 1)..Len(s) : s[j] # ":"
          /\ t = SubSeq(s, 1, i - 1)

\* C9: getOriginIP returns the first comma-separated token of X-Forwarded-For,
\* trimmed, whenever that header is non-empty; otherwise X-Real-IP verbatim
\* when non-empty; otherwise the peer address without its last colon and what
\* follows it.
C9_Origin ==
    Done("IPHandler") =>
        /\ w.status = StatusOK
        /\ Len(w.body) = 1
        /\ DOMAIN w.body[1].json = {"origin"}
        /\ LET origin == w.body[1].json.origin
           IN /\ r.xff # <<>> =>
                    \E n \in 0..Len(r.xff) :
                        /\ IsFirstToken(SubSeq(r.xff, 1, n), r.xff)
                        /\ IsTrimOf(origin, SubSeq(r.xff, 1, n))
              /\ (r.xff = <<>> /\ r.xri # <<>>) => origin = r.xri
              /\ (r.xff = <<>> /\ r.xri = <<>>) => IsHostOf(origin, r.remoteAddr)

C9_Witness ==
    /\ Done("IPHandler")
    /\ r.xff = <<" ","1",".","2",".","3",".","4"," ",",","5",".","6",".","7",".","8">>
    /\ r.xri = <<"9",".","9",".","9",".","9">>
    /\ r.remoteAddr = <<"1","0",".","0",".","0",".","1",":","1","2","3","4","5">>
    /\ w.body[1].json.origin = <<"1",".","2",".","3",".","4">>

DelaySpecOf == TrimPrefix(r.path, DelayPrefix)

\* the digits of an integer literal without sign and leading zeros
Magnitude(s) == StripZeros(IF s # <<>> /\ Head(s) \in {"+", "-"} THEN Tail(s) ELSE s)

IsNegativeLiteral(s) == IsIntegerLiteral(s) /\ Head(s) = "-" /\ Magnitude(s) # <<>>

\* min(n, MaxDelay) of a non-negative integer literal
CappedValue(s) ==
    IF Len(Magnitude(s)) > 2 THEN MaxDelay
    ELSE IF DigitsValue(Magnitude(s)) > MaxDelay THEN MaxDelay
    ELSE DigitsValue(Magnitude(s))

\* the response is 200 with the descriptor of the request
IsDescriptor(rw, req) ==
    /\ rw.status = StatusOK
    /\ rw.header["Content-Type"] = ContentTypeJSON
    /\ Len(rw.body) = 1
    /\ rw.body[1].json.method = req.method
    /\ rw.body[1].json.url = req.path
    /\ rw.body[1].json.body = req.body

\* C10 as claimed: if n is not an integer or n < 0, DelayHandler answers 400
\* without suspending; otherwise it suspends for exactly min(n, 10) seconds and
\* then answers 200 with the request descriptor.
C10_AsClaimed ==
    /\ (pc = "sleeping" /\ handler = "DelayHandler") => (w.status = 0 /\ slept = 0)
    /\ Done("DelayHandler") =>
          IF ~IsIntegerLiteral(DelaySpecOf) \/ IsNegativeLiteral(DelaySpecOf)
          THEN IsJSONError(w, StatusBadRequest) /\ slept = 0 /\ seconds = <<>>
          ELSE slept = CappedValue(DelaySpecOf) /\ IsDescriptor(w, r)

\* C10, amended: if n is not an integer that fits the platform int, or n < 0,
\* DelayHandler answers 400 without suspending; otherwise it suspends for
\* exactly min(n, 10) seconds and then answers 200 with the request descriptor
\* if the request body can be read, and 500 with a JSON error if it cannot.
C10_Delay ==
    /\ (pc = "sleeping" /\ handler = "DelayHandler") => (w.status = 0 /\ slept = 0)
    /\ Done("DelayHandler") =>
          IF \/ ~IsIntegerLiteral(DelaySpecOf)
             \/ IsNegativeLiteral(DelaySpecOf)
             \/ Len(Magnitude(DelaySpecOf)) > Len(MaxInt64Digits)
             \/ (/\ Len(Magnitude(DelaySpecOf)) = Len(MaxInt64Digits)
                 /\ DigitsGreater(Magnitude(DelaySpecOf), MaxInt64Digits))
          THEN IsJSONError(w, StatusBadRequest) /\ slept = 0 /\ seconds = <<>>
          ELSE /\ slept = CappedValue(DelaySpecOf)
               /\ r.bodyErr => IsJSONError(w, StatusInternalServerError)
               /\ ~r.bodyErr => IsDescriptor(w, r)

C10_Witness ==
    /\ Done("DelayHandler")
    /\ DelaySpecOf = Itoa(MaxDelay + 1)
    /\ ~r.bodyErr
    /\ slept = MaxDelay
    /\ w.status = StatusOK

\* the verb of the route the request was sent to
RouteVerb == CHOOSE m \in Verbs : MethodRoute[m] = r.path

\* C11: a handler built by MethodHandler(m) responds 405 with a JSON error to
\* every request whose method differs from m, before reading the body, and
\* responds 200 to a request whose method is m and whose body can be read, with
\* the descriptor's method field equal to m (the HEAD handler emits no
\* descriptor: see C12).
C11_MethodCheck ==
    Done("MethodHandler") =>
        /\ r.method # RouteVerb =>
              /\ IsJSONError(w, StatusMethodNotAllowed)
              /\ bodyReads = 0
        /\ (r.method = RouteVerb /\ ~r.bodyErr) =>
              /\ w.status = StatusOK
              /\ bodyReads = 1
              /\ RouteVerb # "HEAD" =>
                    /\ Len(w.body) = 1
                    /\ w.body[1].json.method = RouteVerb

C11_Witness ==
    /\ Done("MethodHandler")
    /\ r.path = <<"/","g","e","t">>
    /\ r.method = "POST"
    /\ r.bodyErr
    /\ w.status = StatusMethodNotAllowed
    /\ bodyReads = 0

JSONContentTypes == {<<"a","p","p","l","i","c","a","t","i","o","n","/","j","s","o","n">>, <<"a","p","p","l","i","c","a","t","i","o","n","/","j","s","o","n",";"," ","c","h","a","r","s","e","t","=","u","t","f","-","8">>}

\* the bodies of the requests that are valid JSON, each with the value it
\* denotes, written out by hand
DecodedBodies ==
    (<<"{","\"","k","e","y","\"",":","\"","v","a","l","u","e","\"","}">> :> JSONObject(<<"k","e","y">> :> JSONString(<<"v","a","l","u","e">>)))
    @@ (<<"n","u","l","l">> :> JSONNil)
    @@ (<<" ","n","u","l","l","\n">> :> JSONNil)
    @@ (<<"t","r","u","e">> :> JSONBool(TRUE))
    @@ (<<"f","a","l","s","e">> :> JSONBool(FALSE))
    @@ (<<"0">> :> JSONNumber(0))
    @@ (<<"-","1","2">> :> JSONNumber(0 - 12))
    @@ (<<"\"","\"">> :> JSONString(<<>>))
    @@ (<<"[","]">> :> JSONArray(<<>>))
    @@ (<<"{","}">> :> JSONObject(NoFields))
    @@ (<<"[","1",","," ","\"","a","\"",","," ","n","u","l","l",","," ","{","\"","b","\"",":"," ","[","t","r","u","e","]","}","]">> :>
          JSONArray(<<JSONNumber(1), JSONString(<<"a">>), JSONNil,
                      JSONObject(<<"b">> :> JSONArray(<<JSONBool(TRUE)>>))>>))
    @@ (<<"{","\"","a","\"",":","1",",","\"","a","\"",":","2","}">> :> JSONObject(<<"a">> :> JSONNumber(2)))
    @@ (<<"{","\"","k","\"",":","\"","a","\\","n","b","\\","\"","c","\"","}">> :> JSONObject(<<"k">> :> JSONString(<<"a", "\n", "b", "\"", "c">>)))

\* the descriptor a 200 response carries
Descriptor == w.body[1].json

\* a request served by a handler that emits the descriptor
DescriptorEmitted ==
    /\ \/ Done("MethodHandler") /\ r.method = RouteVerb /\ RouteVerb # "HEAD"
       \/ Done("DelayHandler") /\ seconds # <<>>
    /\ ~r.bodyErr

\* C13 as claimed: the descriptor's body field equals the raw body, and its
\* json field is present exactly when the Content-Type contains
\* application/json and the body parses as valid JSON, in which case it equals
\* the decoded body; a body that fails to parse still yields 200.
C13_AsClaimed ==
    DescriptorEmitted =>
        /\ w.status = StatusOK
        /\ Descriptor.body = r.body
        /\ Descriptor.json # JSONNil <=>
              (r.contentType \in JSONContentTypes /\ r.body \in DOMAIN DecodedBodies)
        /\ Descriptor.json # JSONNil => Descriptor.json = DecodedBodies[r.body]

\* C13, amended: the descriptor's body field equals the raw body, and its json
\* field is present exactly when the Content-Type contains application/json
\* and the body parses as valid JSON other than null, in which case it equals
\* the decoded body; a body that fails to parse, or that is null, still yields
\* 200 with json absent.
C13_Descriptor ==
    DescriptorEmitted =>
        /\ w.status = StatusOK
        /\ Descriptor.body = r.body
        /\ Descriptor.json # JSONNil <=>
              /\ r.contentType \in JSONContentTypes
              /\ r.body \in DOMAIN DecodedBodies
              /\ DecodedBodies[r.body] # JSONNil
        /\ Descriptor.json # JSONNil => Descriptor.json = DecodedBodies[r.body]

C13_Witness ==
    /\ Done("MethodHandler")
    /\ r.method = "POST"
    /\ r.path = <<"/","p","o","s","t">>
    /\ r.contentType = <<"a","p","p","l","i","c","a","t","i","o","n","/","j","s","o","n">>
    /\ r.body = <<"{","\"","k","e","y","\"",":","\"","v","a","l","u","e","\"","}">>
    /\ w.status = StatusOK
    /\ Descriptor.json = JSONObject(<<"k","e","y">> :> JSONString(<<"v","a","l","u","e">>))
    /\ Descriptor.body = r.body

\* the calls of the handler that write a status: WriteHeader, and Write
StatusCalls == {i \in 1..Len(calls) : calls[i].op \in {"WriteHeader", "Write"}}

\* the status the first of them writes; 200 if there is none
FirstStatus ==
    IF StatusCalls = {} THEN 200
    ELSE IF calls[Min(StatusCalls)].op = "WriteHeader" THEN calls[Min(StatusCalls)].code
    ELSE 200

\* the status in the line logged when the handler has returned
LoggedStatus == logged[Len(logged)].statusCode

\* a 1xx code the server sends as an interim response
IsInterim(code) == code \in (100..199) \ {101}

HeaderCalls == {i \in 1..Len(calls) : calls[i].op = "WriteHeader"}

ShutdownCalled == mainPc \in {"shutdown", "exiting", "fatal", "done"}

\* C16: after SIGINT or SIGTERM the process calls Shutdown with a 10-second
\* bound, waits until the requests in flight have drained or the bound has
\* elapsed, and only then exits, logging "Server exited"; in no interleaving of
\* the serving goroutine and the main goroutine does the process exit before
\* Shutdown has returned.
C16_ExitAfterShutdown ==
    /\ mainPc = "shutdown" => exited = "running"
    /\ (ShutdownCalled /\ exited # "running") =>
          /\ mainPc = "done"
          /\ procLog[Len(procLog)] = "Server exited"

\* C17: extractRequestInfo closes the request body stream on every outcome,
\* including when reading the body fails and an error is returned.
C17_BodyClosed ==
    (pc = "done" /\ bodyReads > 0) => bodyClosed

\* the handlers that call extractRequestInfo
ReadsBody ==
    \/ Done("MethodHandler") /\ r.method = RouteVerb
    \/ Done("DelayHandler") /\ seconds # <<>>

\* C18: every handler reads the request body at most once per request, and
\* when that read fails (in MethodHandler or DelayHandler) no descriptor is
\* constructed or emitted and the response is 500 with a JSON error body.
C18_ReadOnce ==
    /\ bodyReads <= 1
    /\ pc = "done" => (bodyReads = 1 <=> ReadsBody)
    /\ (ReadsBody /\ r.bodyErr) =>
          /\ IsJSONError(w, StatusInternalServerError)
          /\ w.body[1].json.error = "Failed to read request body"

C18_Witness ==
    /\ Done("DelayHandler")
    /\ r.bodyErr
    /\ slept = 1
    /\ bodyReads = 1
    /\ w.status = StatusInternalServerError

\* the handlers of the service
Handlers ==
    {"MethodHandler", "HeadersHandler", "IPHandler", "UserAgentHandler", "DelayHandler",
     "StatusHandler", "BasicAuthHandler", "BearerHandler", "DigestAuthHandler"}

\* C19: on every execution path of every handler the response status is
\* written exactly once per request; an error response is terminal, with no
\* later write and no retry.
C19_WrittenOnce ==
    /\ pc = "sleeping" => (w.writeHeaderCalls = 0 /\ w.body = <<>>)
    /\ pc = "done" =>
          /\ handler \in Handlers
          /\ w.writeHeaderCalls = 1
          /\ Len(w.body) <= 1
          /\ w.status \in {StatusBadRequest, StatusUnauthorized, StatusMethodNotAllowed,
                           StatusInternalServerError}
                => (handler = "StatusHandler" /\ statusCode = <<w.status>> /\ w.body = <<>>)
                   \/ IsJSONError(w, w.status)
          /\ bodyReads <= 1

C19_Witness ==
    /\ Done("BasicAuthHandler")
    /\ w.status = StatusUnauthorized
    /\ w.writeHeaderCalls = 1
    /\ Len(w.body) = 1

\* the response of a request served alone, from the request and its own draw
SoloResponse(c) ==
    IF c.handler = "StatusHandler"
    THEN StatusResponse(parseStatusCodes(c.r.path), IF c.draw = <<>> THEN 0 ELSE c.draw[1])
    ELSE IF c.seconds = <<>>
    THEN writeJSONError(NewResponse, StatusBadRequest, "Invalid delay value")
    ELSE writeJSONResponse(NewResponse, StatusOK, extractRequestInfo(c.r).info)

\* C20: for any interleaving of concurrently handled requests, each request's
\* response is determined only by that request and its own random draws, and
\* a request suspended in DelayHandler holds no shared resource: any other
\* request can run while it sleeps.
C20_Isolation ==
    /\ \A i \in Conns : conns[i].pc = "done" => conns[i].w = SoloResponse(conns[i])
    /\ \A i \in Conns : (conns[i].draw # <<>>) =>
          StatusDraws(parseStatusCodes(conns[i].r.path))
    /\ \A i, j \in Conns :
          (i # j /\ conns[i].pc = "sleeping") => ENABLED ConnStep(j)
    /\ \A i \in Conns : i \in suspended => conns[i].pc = "sleeping"

C20_Witness ==
    /\ conns[1].pc = "sleeping"
    /\ conns[1].seconds = <<MaxDelay>>
    /\ conns[2].pc = "done"
    /\ conns[2].handler = "StatusHandler"
    /\ conns[2].draw # <<>>
    /\ conns[2].w.status = StatusInternalServerError

\* what parseStatusCodes returned for the /status/ request being served
ParsedWeights == statusWeights

\* C21: every entry of the sequence returned by parseStatusCodes has a weight
\* >= 0, and an unweighted spec (one without a colon) that parses yields
\* exactly one entry, of weight 1.0.
C21_WeightsNonNegative ==
    Done("StatusHandler") =>
        /\ \A i \in 1..Len(ParsedWeights) : ParsedWeights[i].weight >= 0
        /\ (~Contains(StatusSpecOf, ":") /\ statusCode # <<>>) =>
               /\ Len(ParsedWeights) = 1
               /\ ParsedWeights[1].weight = UnitWeight

\* the number of parts of s that the separator delimits, and the k-th of them
Parts(s, sep) == Cardinality({i \in 1..Len(s) : s[i] = sep}) + 1

Part(s, sep, k) ==
    LET seps == {i \in 1..Len(s) : s[i] = sep}
        from == IF k = 1 THEN 1
                ELSE 1 + (CHOOSE i \in seps : Cardinality({j \in seps : j < i}) = k - 2)
        upto == IF k > Cardinality(seps) THEN Len(s)
                ELSE (CHOOSE i \in seps : Cardinality({j \in seps : j < i}) = k - 1) - 1
    IN SubSeq(s, from, upto)

\* an integer literal of the platform's int: numerals of up to 18 digits fit
\* 64 bits and those of 20 or more do not (no request has a 19-digit code)
IsIntLiteral(s) == IsIntegerLiteral(s) /\ Len(Magnitude(s)) <= 18

\* a decimal numeral: an optional sign, digits with at most one point among
\* them, one digit at least
IsDecimalNumeral(s) ==
    LET m == IF s # <<>> /\ Head(s) \in {"+", "-"} THEN Tail(s) ELSE s
    IN /\ \A i \in 1..Len(m) : m[i] \in {"0","1","2","3","4","5","6","7","8","9","."}
       /\ Cardinality({i \in 1..Len(m) : m[i] = "."}) <= 1
       /\ \E i \in 1..Len(m) : m[i] # "."

\* a segment of exactly two colon-separated parts, an integer code and a
\* numeric weight, white space around the segment and its parts aside
WellFormedSegment(seg) ==
    /\ Parts(seg, ":") = 2
    /\ IsIntLiteral(TrimSpace(Part(seg, ":", 1)))
    /\ IsDecimalNumeral(TrimSpace(Part(seg, ":", 2)))

\* the code and the weight that each well-formed segment of the requests denotes
SegmentEntry ==
    (<<"2","0","0",":","1">> :> [code |-> 200, weight |-> UnitWeight])
    @@ (<<"5","0","0",":","0">> :> [code |-> 500, weight |-> 0])
    @@ (<<"4","0","4",":","0",".","5">> :> [code |-> 404, weight |-> UnitWeight \div 2])
    @@ (<<"9","9",":","1">> :> [code |-> 99, weight |-> UnitWeight])
    @@ (<<" ","6","0","0"," ",":"," ","2"," ">> :> [code |-> 600, weight |-> 2 * UnitWeight])
    @@ (<<"5","0","3",":","-","1">> :> [code |-> 503, weight |-> 0 - UnitWeight])
    @@ (<<"2","0","1",":","0">> :> [code |-> 201, weight |-> 0])
    @@ (<<" ","5","0","0",":","0">> :> [code |-> 500, weight |-> 0])

\* the entries of the well-formed ones among the first n segments, in order
RECURSIVE WellFormedEntries(_, _)
WellFormedEntries(s, n) ==
    IF n = 0 THEN <<>>
    ELSE WellFormedEntries(s, n - 1)
         \o (LET seg == Part(s, ",", n)
             IN IF WellFormedSegment(seg) THEN <<SegmentEntry[seg]>> ELSE <<>>)

\* C22: for a spec that contains a colon, parseStatusCodes returns exactly
\* the entries, in input order, of the comma-separated segments that consist
\* of two colon-separated parts with an integer code and a numeric weight;
\* the other segments are dropped without an error, and StatusHandler answers
\* 400 only when no entry is left or the selected code is out of range.
C22_WeightedParse ==
    (Done("StatusHandler") /\ Contains(StatusSpecOf, ":")) =>
        /\ ParsedWeights = WellFormedEntries(StatusSpecOf, Parts(StatusSpecOf, ","))
        /\ IsJSONError(w, StatusBadRequest) <=>
               (\/ ParsedWeights = <<>>
                \/ statusCode # <<>> /\ statusCode[1] \notin MinStatus..MaxStatus)

C22_Witness ==
    /\ Done("StatusHandler")
    /\ StatusSpecOf = <<"a","b","c",":","1",",","4","0","4",":","0",".","5",",","2","0","0",":","1",":","1">>
    /\ Len(ParsedWeights) = 1
    /\ w.status = 404

\* C23: selectStatusCode returns the single entry's code for a one-entry spec
\* whatever its weight (weight 0 included), without a draw; for a spec of
\* several entries and the draw r = rand.Float64() * totalWeight it returns
\* the code of the first entry whose cumulative weight is >= r, or the last
\* entry's code when there is none; the code returned is the code of some
\* entry of the spec.
C23_Selection ==
    (Done("StatusHandler") /\ statusCode # <<>>) =>
        LET n == Len(ParsedWeights)
            cumulative[i \in 0..n] ==
                IF i = 0 THEN 0 ELSE cumulative[i - 1] + ParsedWeights[i].weight
            \* cumulative[i] >= r, where r = (draw[1] / DrawRes) * cumulative[n]
            Reached(i) == cumulative[i] * DrawRes >= draw[1] * cumulative[n]
        IN /\ n = 1 => (draw = <<>> /\ statusCode[1] = ParsedWeights[1].code)
           /\ n >= 2 =>
                /\ draw # <<>>
                /\ \A i \in 1..n :
                      (Reached(i) /\ \A j \in 1..(i - 1) : ~Reached(j))
                          => statusCode[1] = ParsedWeights[i].code
                /\ (\A i \in 1..n : ~Reached(i)) => statusCode[1] = ParsedWeights[n].code
           /\ \E i \in 1..n : statusCode[1] = ParsedWeights[i].code

C23_Witness ==
    /\ Done("StatusHandler")
    /\ StatusSpecOf = <<"5","0","0",":","0",",","4","0","4",":","0",".","5",",","2","0","0",":","1">>
    /\ draw = <<DrawRes - 1>>
    /\ statusCode = <<200>>
    /\ w.status = 200

\* C27: for a spec of several entries whose weights are all 0 (the total is
\* 0 and the draw interval [0, 0) is empty), selectStatusCode returns the
\* first entry's code whatever rand.Float64() returns.
C27_AllZero ==
    (/\ Done("StatusHandler")
     /\ Len(ParsedWeights) >= 2
     /\ \A i \in 1..Len(ParsedWeights) : ParsedWeights[i].weight = 0)
    => (draw # <<>> /\ statusCode = <<ParsedWeights[1].code>>)

C27_Witness ==
    /\ Done("StatusHandler")
    /\ StatusSpecOf = <<"5","0","0",":","0",",","2","0","1",":","0">>
    /\ draw = <<DrawRes - 1>>
    /\ w.status = 500

\* the value of the Authorization header after "Digest ", and what
\* parseDigestAuth makes of it
DigestDirectives == SubSeq(r.auth, Len(DigestScheme) + 1, Len(r.auth))
DigestParams == parseDigestAuth(DigestDirectives)

\* DigestAuthHandler has parsed the header of the request
DigestParsed ==
    /\ Done("DigestAuthHandler")
    /\ HasPrefix(r.auth, DigestScheme)
    /\ w.status # StatusBadRequest

\* the key and the value that a segment with an '=' denotes: what precedes
\* and what follows its first '=', without the white space around them
KeyOf(seg) == TrimSpace(SubSeq(seg, 1, Index(seg, "=") - 1))
RawValueOf(seg) == TrimSpace(SubSeq(seg, Index(seg, "=") + 1, Len(seg)))

\* v without one layer of surrounding double quotes
UnquoteOnce(v) ==
    IF Len(v) >= 2 /\ v[1] = "\"" /\ v[Len(v)] = "\"" THEN SubSeq(v, 2, Len(v) - 1) ELSE v

\* C24: parseDigestAuth splits the header value on commas and each segment on
\* its first '=', skips the segments without an '=', trims the white space of
\* key and value, and removes exactly one layer of surrounding double quotes
\* from the value (the last segment of a key gives its value).
C24_DigestParse ==
    DigestParsed =>
        LET n == Parts(DigestDirectives, ",")
            keyed == {k \in 1..n : Contains(Part(DigestDirectives, ",", k), "=")}
        IN /\ DOMAIN DigestParams = {KeyOf(Part(DigestDirectives, ",", k)) : k \in keyed}
           /\ \A k \in keyed :
                 LET seg == Part(DigestDirectives, ",", k)
                 IN (\A j \in keyed : j > k => KeyOf(Part(DigestDirectives, ",", j)) # KeyOf(seg))
                        => DigestParams[KeyOf(seg)] = UnquoteOnce(RawValueOf(seg))

\* a response that carries the resolved origin: of /ip, or in a descriptor
OriginEmitted == Done("IPHandler") \/ DescriptorEmitted
Origin == w.body[1].json.origin

\* the peer address of the request has a non-empty host part
PeerHasHost == ~IsHostOf(<<>>, r.remoteAddr)

\* the request carries an X-Forwarded-For header whose first comma-separated
\* token is empty or white space only
BlankForwardedFor ==
    /\ r.xff # <<>>
    /\ \E n \in 0..Len(r.xff) :
          /\ IsFirstToken(SubSeq(r.xff, 1, n), r.xff)
          /\ \A j \in 1..n : r.xff[j] \in SpaceChars

\* C26 as claimed: for every request whose peer address has a non-empty host
\* part the resolved origin is a non-empty string, whatever X-Forwarded-For
\* and X-Real-IP headers it carries.
C26_AsClaimed == (OriginEmitted /\ PeerHasHost) => Origin # <<>>

\* C26, amended: for every request whose peer address has a non-empty host
\* part the resolved origin is empty exactly when the request carries a
\* non-empty X-Forwarded-For header whose first comma-separated token is empty
\* or white space only; it is a non-empty string otherwise.
C26_Origin == (OriginEmitted /\ PeerHasHost) => (Origin = <<>> <=> BlankForwardedFor)

C26_Witness ==
    /\ Done("IPHandler")
    /\ r.xff = <<",","5",".","6",".","7",".","8">>
    /\ r.xri = <<"9",".","9",".","9",".","9">>
    /\ r.remoteAddr = <<"1","0",".","0",".","0",".","1",":","1","2","3","4","5">>
    /\ Origin = <<>>

\* the directives whose values the simplified handler is said to ignore
HashDirectives == {<<"r","e","s","p","o","n","s","e">>, <<"n","o","n","c","e">>, <<"r","e","a","l","m">>, <<"u","r","i">>}

\* two lists of directives that differ at most in the values of HashDirectives
SameButHash(d1, d2) ==
    /\ Len(d1) = Len(d2)
    /\ \A i \in 1..Len(d1) :
          /\ d1[i].name = d2[i].name
          /\ d1[i].name \notin HashDirectives => d1[i].value = d2[i].value

\* two paths after /digest-auth/ that differ at most in their third segment
SameButPassword(p1, p2) ==
    /\ Segments(p1) = Segments(p2)
    /\ \A k \in (1..Segments(p1)) \ {3} : Segment(p1, k) = Segment(p2, k)

\* no value of a directive of HashDirectives contains a comma
CommaFree(dirs) ==
    \A i \in 1..Len(dirs) : dirs[i].name \in HashDirectives => ~Contains(dirs[i].value, ",")

\* the status and the JSON body of DigestAuthHandler for another request
SameOutcome(rest, dirs) ==
    \A bytes \in ByteBlocks :
        LET other == DigestAuthResponse(DigestPrefix \o rest,
                                        DigestScheme \o WriteDirectives(dirs), bytes, bytes)
        IN other.status = w.status /\ other.body = w.body

\* C25 as claimed: two requests that differ only in the password segment of
\* the path and in the values of the response, nonce, realm and uri
\* directives receive the same status code and the same JSON body from
\* DigestAuthHandler.
C25_AsClaimed ==
    Done("DigestAuthHandler") =>
        \A d1 \in ClientDirectives, d2 \in ClientDirectives, rest \in DigestPathRests :
            (/\ r.auth = DigestScheme \o WriteDirectives(d1)
             /\ SameButHash(d1, d2)
             /\ SameButPassword(DigestRestOf, rest))
            => SameOutcome(rest, d2)

\* C25, amended: two requests that differ only in the password segment of the
\* path and in the values of the response, nonce, realm and uri directives,
\* none of these values containing a comma, receive the same status code and
\* the same JSON body from DigestAuthHandler.
C25_PasswordUnused ==
    Done("DigestAuthHandler") =>
        \A d1 \in ClientDirectives, d2 \in ClientDirectives, rest \in DigestPathRests :
            (/\ r.auth = DigestScheme \o WriteDirectives(d1)
             /\ SameButHash(d1, d2)
             /\ CommaFree(d1) /\ CommaFree(d2)
             /\ SameButPassword(DigestRestOf, rest))
            => SameOutcome(rest, d2)

C25_Witness ==
    /\ Done("DigestAuthHandler")
    /\ DigestRestOf = <<"a","u","t","h","/","u","s","e","r","/","o","t","h","e","r">>
    /\ r.auth = <<"D","i","g","e","s","t"," ","u","s","e","r","n","a","m","e","=","\"","u","s","e","r","\"",","," ","r","e","a","l","m","=","\"","O","t","h","e","r","\"",","," ","n","o","n","c","e","=","\"","z","z","z","\"",","," ","u","r","i","=","\"","/","\"",","," ","r","e","s","p","o","n","s","e","=","\"","0","\"">>
    /\ w.status = StatusOK
    /\ w.body[1].json.user = <<"u","s","e","r">>

\* the handlers that setupRoutes registers as they are, without MethodHandler
PlainHandlers ==
    {"HeadersHandler", "IPHandler", "UserAgentHandler", "DelayHandler", "StatusHandler",
     "BasicAuthHandler", "BearerHandler", "DigestAuthHandler"}

\* the status the handler h answers to the request req with, for the weights
\* parsed from the path, the draw of rand.Float64 and the bytes of rand.Read
\* of the request being served
StatusFor(h, req) ==
    CASE h = "StatusHandler" ->
           StatusResponse([err |-> FALSE, weights |-> ParsedWeights],
                          IF draw = <<>> THEN 0 ELSE draw[1]).status
      [] h = "BasicAuthHandler" -> BasicAuthResponse(req.path, req.auth).status
      [] h = "BearerHandler" -> BearerResponse(req.auth).status
      [] h = "DigestAuthHandler" ->
           LET bytes == CHOOSE b \in ByteBlocks : TRUE
           IN DigestAuthResponse(req.path, req.auth, bytes, bytes).status
      [] h = "IPHandler" ->
           writeJSONResponse(NewResponse, StatusOK, [origin |-> getOriginIP(req)]).status
      [] h = "HeadersHandler" ->
           writeJSONResponse(NewResponse, StatusOK, [headers |-> RequestHeaders(req)]).status
      [] h = "UserAgentHandler" ->
           writeJSONResponse(NewResponse, StatusOK, ("user-agent" :> req.userAgent)).status
      [] h = "DelayHandler" ->
           IF ~DelayValueOK(Atoi(TrimPrefix(req.path, DelayPrefix))) THEN StatusBadRequest
           ELSE IF extractRequestInfo(req).err THEN StatusInternalServerError
           ELSE StatusOK

\* the status of the request being served is the one the same request would
\* receive with any other method
SameForEveryMethod(h) ==
    \A other \in {"GET", "POST", "HEAD"} :
        StatusFor(h, [r EXCEPT !.method = other]) = w.status

\* C28 as claimed: HeadersHandler, IPHandler, UserAgentHandler, DelayHandler,
\* StatusHandler and the three auth handlers never look at the request method:
\* two requests that differ only in their method receive the same status code
\* from each of them, and only MethodHandler can answer 405.
C28_AsClaimed ==
    \A h \in PlainHandlers :
        Done(h) => (SameForEveryMethod(h) /\ w.status # StatusMethodNotAllowed)

\* C28, amended: two requests that differ only in their method receive the
\* same status code from each of these handlers, and none of them answers 405
\* except StatusHandler when 405 is the code selected from the spec of the
\* path.
C28_MethodIgnored ==
    \A h \in PlainHandlers :
        Done(h) =>
            /\ SameForEveryMethod(h)
            /\ w.status = StatusMethodNotAllowed =>
                   (h = "StatusHandler" /\ statusCode = <<StatusMethodNotAllowed>>)

C28_Witness ==
    /\ Done("DelayHandler")
    /\ r.method = "POST"
    /\ r.bodyErr
    /\ StatusFor("DelayHandler", [r EXCEPT !.method = "GET"]) = StatusInternalServerError
    /\ w.status = StatusInternalServerError

====
